---- MODULE Spec2Model ----
(***************************************************************************)
(* A model of the LEGO flip tracker (src/app.js).                          *)
(*                                                                         *)
(* Spec      : the IndexedDB stores, the in-memory snapshot and the event  *)
(*             handlers of the three-store application (app.js 1-2017).    *)
(*             Every handler is cut at its awaits: the step that starts it *)
(*             runs its synchronous prefix, each later step is one storage *)
(*             request together with the synchronous code that follows it. *)
(*             Steps of different pending handlers interleave freely.      *)
(* SpecStats : the stats computation (statsRangeFilter, sumExpensesByType, *)
(*             computeSaleNet, renderStats) over bounded snapshots, and    *)
(*             the single-store variant calcNet (app.js 2300-2393).        *)
(***************************************************************************)
EXTENDS Integers, Sequences, FiniteSets, TLC

\* ------------------------------------------------------------------ bounds
MaxItems == 2        \* inventory ids uid() hands out
MaxSales == 2        \* sale ids uid() hands out
MaxPending == 2      \* handlers that may be awaiting storage at once
MaxFileRecs == 1     \* records per store in an import file, data rows in a CSV
MaxOps == 3          \* handlers started in one run
MaxImports == 1      \* import files (JSON or CSV) read in one run
MaxExpenses == 2     \* expense records of the stats computation

ItemIds == 1..MaxItems
SaleIds == 1..MaxSales
\* an inventory id of an import file that no store ever held
GhostId == MaxItems + 1
\* the empty string of a hidden form field / a missing id
NoId == 0

\* ------------------------------------------------------------------ state
VARIABLES
  invStore,      \* object store "inventory": id -> record
  salesStore,    \* object store "sales": id -> record, unique index inventoryId
  allInv,        \* let allInv: the snapshot reloadAll fetched (objects are shared)
  allSales,      \* let allSales
  invForm,       \* #invForm's hidden id field
  saleForm,      \* #saleForm's hidden inventoryId and saleId fields
  tradeSelected, \* const tradeSelected = new Set()
  pending,       \* the handlers suspended at an await
  nextInv,       \* uid(): next fresh inventory id
  nextSale,      \* uid(): next fresh sale id
  slots,         \* how many handlers the user lets run at once
  opsLeft,       \* handlers the run may still start
  importsLeft,   \* import files the run may still read
  lastOp,        \* history: what the last step did
  stats,         \* SpecStats: the filter settings and what renderStats last wrote
  expStore,      \* object store "expenses": id -> record
  allExpenses    \* let allExpenses

vars == <<invStore, salesStore, allInv, allSales, invForm, saleForm,
          tradeSelected, pending, nextInv, nextSale, slots, opsLeft, importsLeft,
          lastOp, stats, expStore, allExpenses>>

\* ---------------------------------------------------------------- helpers
EmptyStore == [k \in {} |-> 0]

\* store.put(item): keyPath "id", the record with the same key is replaced
StorePut(store, id, rec) ==
  [k \in (DOMAIN store) \cup {id} |-> IF k = id THEN rec ELSE store[k]]

\* store.delete(id)
StoreDelete(store, id) == [k \in (DOMAIN store) \ {id} |-> store[k]]

\* mutant: the index is created without { unique: true }
IndexNotUnique(store, sid, sale) == TRUE

\* createIndex("inventoryId", "inventoryId", { unique: true }): a put is
\* rejected when another key already holds the same inventoryId
UniqueIndexOk(store, sid, sale) ==
  \A k \in DOMAIN store : k # sid => store[k].inventoryId # sale.inventoryId

\* (inv.status || "in_stock")
StatusOf(rec) == IF rec.status = "" THEN "in_stock" ELSE rec.status

\* allSales.find((s) => s.inventoryId === id): the id of the sale, or NoId.
\* getAll returns the records in key order, find takes the first.
Min(S) == CHOOSE x \in S : \A y \in S : x <= y
SaleFind(sales, id) ==
  LET hits == {k \in DOMAIN sales : sales[k].inventoryId = id}
  IN IF hits = {} THEN NoId ELSE Min(hits)

\* index.get(inventoryId) of saleByInventoryId
SaleByInventoryId(id) == SaleFind(salesStore, id)

RECURSIVE SetToSeq(_)
SetToSeq(S) == IF S = {} THEN <<>> ELSE <<Min(S)>> \o SetToSeq(S \ {Min(S)})

RemoveAt(s, i) == [j \in 1..(Len(s) - 1) |-> IF j < i THEN s[j] ELSE s[j + 1]]

\* A suspended handler. todo, todoS: the items / sales a loop has still to
\* write. nInv, nSales: the records of a JSON file not yet read; the file
\* was written when knownInv / knownSales ids had been handed out. refs: the ids of the allInv objects it holds and
\* writes through; live: those objects are still the ones in allInv;
\* copy: their contents once a reload has replaced allInv.
Handler(op, pc, id, sid) ==
  [op |-> op, pc |-> pc, id |-> id, sid |-> sid, rec |-> [status |-> ""],
   refs |-> {}, live |-> TRUE, copy |-> EmptyStore, todo |-> <<>>,
   todoS |-> <<>>, newId |-> NoId, nInv |-> 0, nSales |-> 0,
   knownInv |-> 0, knownSales |-> 0, delItems |-> {}, hadSale |-> FALSE]

CanStart == Len(pending) < slots /\ opsLeft > 0
Started(h) == Append(pending, h)

SetH(i, h) == [pending EXCEPT ![i] = h]

\* the object a handler's reference points to
Deref(h, id) == IF h.live THEN allInv[id] ELSE h.copy[id]

\* mutant: the status is set on a copy, the object in allInv keeps its own
WriteLost(h, id, s) == allInv

\* inv.status = s through a reference: the object is shared with allInv as
\* long as no reload has replaced the snapshot
AllInvAfterWrite(h, id, s) ==
  IF h.live THEN [allInv EXCEPT ![id].status = s] ELSE allInv
HandlerAfterWrite(h, id, s) ==
  IF h.live THEN h ELSE [h EXCEPT !.copy[id].status = s]

LastOp(kind, op, id) ==
  [kind |-> kind, op |-> op, id |-> id, status |-> "", new |-> FALSE,
   delItems |-> {}, hadSale |-> FALSE]

\* a step no claim looks back at
Quiet == LastOp("step", "", NoId)

\* the inventory id a stored sale references, as a set (empty when absent)
ItemOfSale(sid) ==
  IF sid \in DOMAIN salesStore THEN {salesStore[sid].inventoryId} ELSE {}

\* ------------------------------------------------------------ reloadAll
\* allInv = await txGetAll(INVENTORY_STORE): every reference a pending
\* handler holds now points to an object that is no longer in allInv
ReloadInv(i) ==
  /\ i \in 1..Len(pending)
  /\ pending[i].pc = "reloadInv"
  /\ allInv' = invStore
  /\ pending' = [j \in 1..Len(pending) |->
       LET h == pending[j]
           g == IF h.live /\ h.refs # {}
                THEN [h EXCEPT !.live = FALSE,
                               !.copy = [k \in h.refs |-> allInv[k]]]
                ELSE h
       IN IF j = i THEN [g EXCEPT !.pc = "reloadSales"] ELSE g]
  /\ lastOp' = Quiet
  /\ UNCHANGED <<invStore, salesStore, allSales, invForm, saleForm,
                 tradeSelected, nextInv, nextSale, slots, opsLeft, importsLeft, stats, expStore, allExpenses>>

\* allSales = await txGetAll(SALES_STORE)
ReloadSales(i) ==
  /\ i \in 1..Len(pending)
  /\ pending[i].pc = "reloadSales"
  /\ allSales' = salesStore
  /\ pending' = SetH(i, [pending[i] EXCEPT !.pc = "reloadDone"])
  /\ lastOp' = Quiet
  /\ UNCHANGED <<invStore, salesStore, allInv, invForm, saleForm,
                 tradeSelected, nextInv, nextSale, slots, opsLeft, importsLeft, stats, expStore, allExpenses>>

\* the normalize loop of reloadAll
NormalizeInv(inv) == [k \in DOMAIN inv |-> [inv[k] EXCEPT !.status = StatusOf(inv[k])]]

\* allExpenses = await txGetAll(EXPENSES_STORE), the normalize loop, and the
\* handler's synchronous tail (resetInvForm, rerenderAll)
ReloadDone(i) ==
  /\ i \in 1..Len(pending)
  /\ pending[i].pc = "reloadDone"
  /\ allExpenses' = expStore
  /\ allInv' = NormalizeInv(allInv)
  /\ invForm' = IF pending[i].op = "invSave" THEN NoId ELSE invForm
  /\ pending' = RemoveAt(pending, i)
  /\ lastOp' = [LastOp("done", pending[i].op, pending[i].id)
                  EXCEPT !.delItems = pending[i].delItems,
                         !.hadSale = pending[i].hadSale]
  /\ UNCHANGED <<invStore, salesStore, allSales, saleForm, tradeSelected,
                 nextInv, nextSale, slots, opsLeft, importsLeft, stats, expStore>>

\* ---------------------------------------------------- inventory add/edit
\* handleInvTableClick, data-inv-edit: setInvForm(inv)
InvEditClick(id) ==
  /\ id \in DOMAIN allInv
  /\ invForm # id
  /\ invForm' = id
  /\ lastOp' = Quiet
  /\ UNCHANGED <<invStore, salesStore, allInv, allSales, saleForm,
                 tradeSelected, pending, nextInv, nextSale, slots, opsLeft, importsLeft, stats, expStore, allExpenses>>

\* handleInvSave up to its first await
InvSaveStart ==
  /\ CanStart
  /\ invForm = NoId => nextInv <= MaxItems
  /\ LET id == IF invForm = NoId THEN nextInv ELSE invForm
         st == IF id \in DOMAIN allInv THEN StatusOf(allInv[id]) ELSE "in_stock"
     IN /\ pending' = Started([Handler("invSave", "put", id, NoId)
                                 EXCEPT !.rec = [status |-> st]])
        /\ lastOp' = Quiet
  /\ nextInv' = IF invForm = NoId THEN nextInv + 1 ELSE nextInv
  /\ opsLeft' = opsLeft - 1
  /\ UNCHANGED <<slots, importsLeft>>
  /\ UNCHANGED <<invStore, salesStore, allInv, allSales, invForm, saleForm,
                 tradeSelected, nextSale, stats, expStore, allExpenses>>

\* await txPut(INVENTORY_STORE, inv)
InvSavePut(i) ==
  /\ i \in 1..Len(pending)
  /\ pending[i].op = "invSave" /\ pending[i].pc = "put"
  /\ invStore' = StorePut(invStore, pending[i].id, pending[i].rec)
  /\ pending' = SetH(i, [pending[i] EXCEPT !.pc = "reloadInv"])
  /\ lastOp' = Quiet
  /\ UNCHANGED <<salesStore, allInv, allSales, invForm, saleForm,
                 tradeSelected, nextInv, nextSale, slots, opsLeft, importsLeft, stats, expStore, allExpenses>>

\* ------------------------------------------------------------- sell form
\* handleInvTableClick, data-inv-sell, up to await saleByInventoryId: the
\* form is opened for every item, whatever its status
SellOpenStart(id) ==
  /\ CanStart
  /\ id \in DOMAIN allInv
  /\ pending' = Started(Handler("sellOpen", "load", id, NoId))
  /\ opsLeft' = opsLeft - 1
  /\ UNCHANGED <<slots, importsLeft>>
  /\ lastOp' = Quiet
  /\ UNCHANGED <<invStore, salesStore, allInv, allSales, invForm, saleForm,
                 tradeSelected, nextInv, nextSale, stats, expStore, allExpenses>>

\* handleSellPickerChange up to await saleByInventoryId: in-stock items only
PickerStart(id) ==
  /\ CanStart
  /\ id \in DOMAIN allInv
  /\ StatusOf(allInv[id]) = "in_stock"
  /\ pending' = Started(Handler("picker", "load", id, NoId))
  /\ opsLeft' = opsLeft - 1
  /\ UNCHANGED <<slots, importsLeft>>
  /\ lastOp' = Quiet
  /\ UNCHANGED <<invStore, salesStore, allInv, allSales, invForm, saleForm,
                 tradeSelected, nextInv, nextSale, stats, expStore, allExpenses>>

\* setSaleForm(inv, sale) with the sale the index returned
FormLoad(i) ==
  /\ i \in 1..Len(pending)
  /\ pending[i].pc = "load"
  /\ saleForm' = [inventoryId |-> pending[i].id,
                  saleId |-> SaleByInventoryId(pending[i].id)]
  /\ pending' = RemoveAt(pending, i)
  /\ lastOp' = LastOp("done", pending[i].op, pending[i].id)
  /\ UNCHANGED <<invStore, salesStore, allInv, allSales, invForm,
                 tradeSelected, nextInv, nextSale, slots, opsLeft, importsLeft, stats, expStore, allExpenses>>

\* handleSaleReset: resetSaleForm
SaleFormReset ==
  /\ saleForm # [inventoryId |-> NoId, saleId |-> NoId]
  /\ saleForm' = [inventoryId |-> NoId, saleId |-> NoId]
  /\ lastOp' = Quiet
  /\ UNCHANGED <<invStore, salesStore, allInv, allSales, invForm,
                 tradeSelected, pending, nextInv, nextSale, slots, opsLeft, importsLeft, stats, expStore, allExpenses>>

\* handleSaleSave up to await txPut(SALES_STORE, sale): the validation looks
\* at the form and at allInv.find only, never at inv.status
SaleSaveStart ==
  /\ CanStart
  /\ saleForm.inventoryId # NoId
  /\ saleForm.inventoryId \in DOMAIN allInv
  /\ saleForm.saleId = NoId => nextSale <= MaxSales
  /\ LET sid == IF saleForm.saleId = NoId THEN nextSale ELSE saleForm.saleId
     IN pending' = Started([Handler("saleSave", "putSale", saleForm.inventoryId, sid)
                              EXCEPT !.refs = {saleForm.inventoryId}])
  /\ nextSale' = IF saleForm.saleId = NoId THEN nextSale + 1 ELSE nextSale
  /\ opsLeft' = opsLeft - 1
  /\ UNCHANGED <<slots, importsLeft>>
  /\ lastOp' = Quiet
  /\ UNCHANGED <<invStore, salesStore, allInv, allSales, invForm, saleForm,
                 tradeSelected, nextInv, stats, expStore, allExpenses>>

\* handleSaleSave ended by one of its four validation returns: no inventory
\* id in the form, no sold date, neither price nor shipping above 0, or the
\* item not found in allInv. Only the toast is shown.
SaleSaveInvalid ==
  /\ lastOp' = LastOp("invalid", "saleSave", saleForm.inventoryId)
  /\ UNCHANGED <<invStore, salesStore, allInv, allSales, invForm, saleForm,
                 tradeSelected, pending, nextInv, nextSale, slots, opsLeft,
                 importsLeft, stats, expStore, allExpenses>>

\* txPut(SALES_STORE, item): the request fails on the unique index, the
\* promise rejects and the awaiting handler ends there
TxPutSaleOk(sid, sale) == UniqueIndexOk(salesStore, sid, sale)

StoreStatus(id) == IF id \in DOMAIN invStore THEN StatusOf(invStore[id]) ELSE "absent"

\* mutant: inv.status = "sold" is assigned before the sale is written
AllInvSoldBeforePut(h) == AllInvAfterWrite(h, h.id, "sold")

\* allInv when await txPut(SALES_STORE, sale) throws: the statements after
\* the await, inv.status = "sold" among them, are not run
AllInvAfterRejectedPut(h) == allInv

\* await txPut(SALES_STORE, sale); inv.status = "sold"
SaleSavePutSale(i) ==
  /\ i \in 1..Len(pending)
  /\ pending[i].op = "saleSave" /\ pending[i].pc = "putSale"
  /\ LET h == pending[i]
         sale == [inventoryId |-> h.id]
     IN IF TxPutSaleOk(h.sid, sale)
        THEN /\ salesStore' = StorePut(salesStore, h.sid, sale)
             /\ allInv' = AllInvAfterWrite(h, h.id, "sold")
             /\ pending' = SetH(i, [HandlerAfterWrite(h, h.id, "sold")
                                      EXCEPT !.pc = "putInv"])
             /\ lastOp' = [LastOp("putSale", "saleSave", h.id)
                             EXCEPT !.new = (h.sid \notin DOMAIN salesStore),
                                    !.status = StoreStatus(h.id)]
        ELSE /\ pending' = RemoveAt(pending, i)
             /\ lastOp' = LastOp("rejected", "saleSave", h.id)
             /\ allInv' = AllInvAfterRejectedPut(h)
             /\ UNCHANGED salesStore
  /\ UNCHANGED <<invStore, allSales, invForm, saleForm, tradeSelected,
                 nextInv, nextSale, slots, opsLeft, importsLeft, stats, expStore, allExpenses>>

\* await txPut(INVENTORY_STORE, inv)
SaleSavePutInv(i) ==
  /\ i \in 1..Len(pending)
  /\ pending[i].op = "saleSave" /\ pending[i].pc = "putInv"
  /\ invStore' = StorePut(invStore, pending[i].id, Deref(pending[i], pending[i].id))
  /\ pending' = SetH(i, [pending[i] EXCEPT !.pc = "reloadInv"])
  /\ lastOp' = Quiet
  /\ UNCHANGED <<salesStore, allInv, allSales, invForm, saleForm,
                 tradeSelected, nextInv, nextSale, slots, opsLeft, importsLeft, stats, expStore, allExpenses>>

\* ------------------------------------------------------ inventory delete
\* handleInvTableClick, data-inv-del, up to its first await: the sale to
\* delete is looked up in the allSales snapshot
DeleteStart(id) ==
  /\ CanStart
  /\ id \in DOMAIN allInv
  /\ LET sale == SaleFind(allSales, id)
     IN pending' = Started([Handler("del", IF sale # NoId THEN "delSale" ELSE "delInv",
                                     id, sale)
                              EXCEPT !.hadSale = (SaleByInventoryId(id) # NoId)])
  /\ opsLeft' = opsLeft - 1
  /\ UNCHANGED <<slots, importsLeft>>
  /\ lastOp' = Quiet
  /\ UNCHANGED <<invStore, salesStore, allInv, allSales, invForm, saleForm,
                 tradeSelected, nextInv, nextSale, stats, expStore, allExpenses>>

\* await txDelete(SALES_STORE, sale.id)
DeleteSale(i) ==
  /\ i \in 1..Len(pending)
  /\ pending[i].op = "del" /\ pending[i].pc = "delSale"
  /\ salesStore' = StoreDelete(salesStore, pending[i].sid)
  /\ pending' = SetH(i, [pending[i] EXCEPT !.pc = "delInv",
                            !.delItems = @ \cup ItemOfSale(pending[i].sid)])
  /\ lastOp' = Quiet
  /\ UNCHANGED <<invStore, allInv, allSales, invForm, saleForm,
                 tradeSelected, nextInv, nextSale, slots, opsLeft, importsLeft, stats, expStore, allExpenses>>

\* await txDelete(INVENTORY_STORE, inv.id)
DeleteInv(i) ==
  /\ i \in 1..Len(pending)
  /\ pending[i].op = "del" /\ pending[i].pc = "delInv"
  /\ invStore' = StoreDelete(invStore, pending[i].id)
  /\ pending' = SetH(i, [pending[i] EXCEPT !.pc = "reloadInv"])
  /\ lastOp' = Quiet
  /\ UNCHANGED <<salesStore, allInv, allSales, invForm, saleForm,
                 tradeSelected, nextInv, nextSale, slots, opsLeft, importsLeft, stats, expStore, allExpenses>>

\* ------------------------------------------------------------------ trade
\* handleTradePickClick: the checkboxes renderTradePickTable drew, one per
\* in-stock item (any filter input re-renders them from allInv)
TradePick(id) ==
  /\ id \in DOMAIN allInv
  /\ StatusOf(allInv[id]) = "in_stock"
  /\ tradeSelected' = IF id \in tradeSelected THEN tradeSelected \ {id}
                      ELSE tradeSelected \cup {id}
  /\ lastOp' = Quiet
  /\ UNCHANGED <<invStore, salesStore, allInv, allSales, invForm, saleForm,
                 pending, nextInv, nextSale, slots, opsLeft, importsLeft, stats, expStore, allExpenses>>

\* handleTradeClear
TradeClear ==
  /\ tradeSelected # {}
  /\ tradeSelected' = {}
  /\ lastOp' = Quiet
  /\ UNCHANGED <<invStore, salesStore, allInv, allSales, invForm, saleForm,
                 pending, nextInv, nextSale, slots, opsLeft, importsLeft, stats, expStore, allExpenses>>

\* the selected items handleTradeSubmit exchanges
SelectedInvs ==
  {id \in tradeSelected : id \in DOMAIN allInv /\ StatusOf(allInv[id]) = "in_stock"}

\* handleTradeSubmit up to its first await: inside the loop the first item
\* is marked exchanged before its put is awaited
TradeStart ==
  /\ CanStart
  /\ tradeSelected # {}
  /\ SelectedInvs # {}
  /\ nextInv <= MaxItems
  /\ LET order == SetToSeq(SelectedInvs)
         h == [Handler("trade", "putOld", Head(order), NoId)
                 EXCEPT !.refs = SelectedInvs, !.todo = Tail(order),
                        !.newId = nextInv]
     IN /\ allInv' = AllInvAfterWrite(h, Head(order), "exchanged")
        /\ pending' = Started(h)
  /\ nextInv' = nextInv + 1
  /\ opsLeft' = opsLeft - 1
  /\ UNCHANGED <<slots, importsLeft>>
  /\ lastOp' = Quiet
  /\ UNCHANGED <<invStore, salesStore, allSales, invForm, saleForm,
                 tradeSelected, nextSale, stats, expStore, allExpenses>>

\* the loop of handleTradeSubmit moving to its next item, or leaving
TradeAdvanced(h) ==
  IF h.todo = <<>> THEN [h EXCEPT !.pc = "putNew"]
  ELSE [HandlerAfterWrite(h, Head(h.todo), "exchanged")
          EXCEPT !.pc = "putOld", !.id = Head(h.todo), !.todo = Tail(h.todo)]
TradeAllInvAdvanced(h) ==
  IF h.todo = <<>> THEN allInv ELSE AllInvAfterWrite(h, Head(h.todo), "exchanged")

\* await txPut(INVENTORY_STORE, inv); allSales.find(...)
TradePutOld(i) ==
  /\ i \in 1..Len(pending)
  /\ pending[i].op = "trade" /\ pending[i].pc = "putOld"
  /\ LET h == pending[i]
         sale == SaleFind(allSales, h.id)
     IN /\ invStore' = StorePut(invStore, h.id, Deref(h, h.id))
        /\ IF sale # NoId
           THEN /\ pending' = SetH(i, [h EXCEPT !.pc = "delSale", !.sid = sale])
                /\ allInv' = allInv
           ELSE /\ pending' = SetH(i, TradeAdvanced(h))
                /\ allInv' = TradeAllInvAdvanced(h)
  /\ lastOp' = Quiet
  /\ UNCHANGED <<salesStore, allSales, invForm, saleForm, tradeSelected,
                 nextInv, nextSale, slots, opsLeft, importsLeft, stats, expStore, allExpenses>>

\* await txDelete(SALES_STORE, sale.id)
TradeDelSale(i) ==
  /\ i \in 1..Len(pending)
  /\ pending[i].op = "trade" /\ pending[i].pc = "delSale"
  /\ LET h == [pending[i] EXCEPT !.delItems = @ \cup ItemOfSale(pending[i].sid)]
     IN /\ salesStore' = StoreDelete(salesStore, h.sid)
        /\ pending' = SetH(i, TradeAdvanced(h))
        /\ allInv' = TradeAllInvAdvanced(h)
  /\ lastOp' = Quiet
  /\ UNCHANGED <<invStore, allSales, invForm, saleForm, tradeSelected,
                 nextInv, nextSale, slots, opsLeft, importsLeft, stats, expStore, allExpenses>>

\* await txPut(INVENTORY_STORE, newInv); tradeSelected.clear()
TradePutNew(i) ==
  /\ i \in 1..Len(pending)
  /\ pending[i].op = "trade" /\ pending[i].pc = "putNew"
  /\ invStore' = StorePut(invStore, pending[i].newId, [status |-> "in_stock"])
  /\ tradeSelected' = {}
  /\ pending' = SetH(i, [pending[i] EXCEPT !.pc = "reloadInv"])
  /\ lastOp' = Quiet
  /\ UNCHANGED <<salesStore, allInv, allSales, invForm, saleForm,
                 nextInv, nextSale, slots, opsLeft, importsLeft, stats, expStore, allExpenses>>

\* ---------------------------------------------------------------- imports
\* what a backup file may say about an item's status ("" when the field is
\* missing)
ImportStatuses == {"", "in_stock", "sold", "exchanged"}

\* the records a JSON file may hold: ids that had been handed out when the
\* file was written, or none; a sale may reference an item no store ever held
FileInvRecs(h) == [id : (1..h.knownInv) \cup {NoId}, status : ImportStatuses]
FileSaleRecs(h) ==
  [id : (1..h.knownSales) \cup {NoId}, inventoryId : (1..h.knownInv) \cup {GhostId}]

ImportPc(nInv, nSales) ==
  IF nInv > 0 THEN "putInv" ELSE IF nSales > 0 THEN "putSale" ELSE "reloadInv"

\* importJSON up to its first await; the records of the file are read one
\* by one as the loops reach them
ImportJSONStart(nInv, nSales) ==
  /\ CanStart
  /\ nInv \in 0..MaxFileRecs /\ nSales \in 0..MaxFileRecs
  /\ pending' = Started([Handler("importJSON", ImportPc(nInv, nSales), NoId, NoId)
                           EXCEPT !.nInv = nInv, !.nSales = nSales,
                                  !.knownInv = nextInv - 1,
                                  !.knownSales = nextSale - 1])
  /\ importsLeft > 0
  /\ importsLeft' = importsLeft - 1
  /\ opsLeft' = opsLeft - 1
  /\ lastOp' = Quiet
  /\ UNCHANGED <<invStore, salesStore, allInv, allSales, invForm, saleForm,
                 tradeSelected, nextInv, nextSale, slots, stats, expStore, allExpenses>>

\* await txPut(INVENTORY_STORE, { ...i, id: i.id || uid(), ... })
ImportPutInv(i, r) ==
  /\ i \in 1..Len(pending)
  /\ pending[i].op = "importJSON" /\ pending[i].pc = "putInv"
  /\ r \in FileInvRecs(pending[i])
  /\ LET h == pending[i]
         id == IF r.id = NoId THEN nextInv ELSE r.id
     IN /\ r.id = NoId => nextInv <= MaxItems
        /\ invStore' = StorePut(invStore, id, [status |-> r.status])
        /\ nextInv' = IF r.id = NoId THEN nextInv + 1 ELSE nextInv
        /\ pending' = SetH(i, [h EXCEPT !.nInv = h.nInv - 1,
                                        !.pc = ImportPc(h.nInv - 1, h.nSales)])
  /\ lastOp' = Quiet
  /\ UNCHANGED <<salesStore, allInv, allSales, invForm, saleForm,
                 tradeSelected, nextSale, slots, opsLeft, importsLeft, stats, expStore, allExpenses>>

\* await txPut(SALES_STORE, { ...s, id: s.id || uid(), ... })
ImportPutSale(i, r) ==
  /\ i \in 1..Len(pending)
  /\ pending[i].op = "importJSON" /\ pending[i].pc = "putSale"
  /\ r \in FileSaleRecs(pending[i])
  /\ LET h == pending[i]
         sid == IF r.id = NoId THEN nextSale ELSE r.id
         sale == [inventoryId |-> r.inventoryId]
     IN /\ r.id = NoId => nextSale <= MaxSales
        /\ nextSale' = IF r.id = NoId THEN nextSale + 1 ELSE nextSale
        /\ IF TxPutSaleOk(sid, sale)
           THEN /\ salesStore' = StorePut(salesStore, sid, sale)
                /\ pending' = SetH(i, [h EXCEPT !.nSales = h.nSales - 1,
                                         !.pc = ImportPc(0, h.nSales - 1)])
                /\ lastOp' = Quiet
           ELSE /\ salesStore' = salesStore
                /\ pending' = RemoveAt(pending, i)
                /\ lastOp' = LastOp("rejected", h.op, r.inventoryId)
  /\ UNCHANGED <<invStore, allInv, allSales, invForm, saleForm,
                 tradeSelected, nextInv, slots, opsLeft, importsLeft, stats, expStore, allExpenses>>

\* importCSVFile up to its first txPut: every kept row became an in-stock
\* item with a fresh id, or a sold item with a sale that references it
CsvRows(n, withSale) ==
  [inv |-> [k \in 1..n |-> [id |-> nextInv + k - 1,
                            status |-> IF withSale[k] THEN "sold" ELSE "in_stock"]],
   sales |-> LET sold == SetToSeq({k \in 1..n : withSale[k]})
             IN [j \in 1..Len(sold) |->
                   [id |-> nextSale + j - 1, inventoryId |-> nextInv + sold[j] - 1]]]

CsvPc(todo, todoS) ==
  IF todo # <<>> THEN "putInv" ELSE IF todoS # <<>> THEN "putSale" ELSE "reloadInv"

ImportCSVStart(n, withSale) ==
  /\ CanStart
  /\ n \in 1..MaxFileRecs
  /\ withSale \in [1..n -> BOOLEAN]
  /\ LET rows == CsvRows(n, withSale)
     IN /\ nextInv + n - 1 <= MaxItems
        /\ nextSale + Len(rows.sales) - 1 <= MaxSales
        /\ pending' = Started([Handler("importCSV", "putInv", NoId, NoId)
                                 EXCEPT !.todo = rows.inv, !.todoS = rows.sales])
        /\ nextInv' = nextInv + n
        /\ nextSale' = nextSale + Len(rows.sales)
  /\ importsLeft > 0
  /\ importsLeft' = importsLeft - 1
  /\ opsLeft' = opsLeft - 1
  /\ lastOp' = Quiet
  /\ UNCHANGED <<invStore, salesStore, allInv, allSales, invForm, saleForm,
                 tradeSelected, slots, stats, expStore, allExpenses>>

\* for (const inv of createdInv) await txPut(INVENTORY_STORE, inv)
CsvPutInv(i) ==
  /\ i \in 1..Len(pending)
  /\ pending[i].op = "importCSV" /\ pending[i].pc = "putInv"
  /\ LET h == pending[i]
         r == Head(h.todo)
     IN /\ invStore' = StorePut(invStore, r.id, [status |-> r.status])
        /\ pending' = SetH(i, [h EXCEPT !.todo = Tail(h.todo),
                                        !.pc = CsvPc(Tail(h.todo), h.todoS)])
  /\ lastOp' = Quiet
  /\ UNCHANGED <<salesStore, allInv, allSales, invForm, saleForm, tradeSelected,
                 nextInv, nextSale, slots, opsLeft, importsLeft, stats, expStore, allExpenses>>

\* for (const s of createdSales) await txPut(SALES_STORE, s)
CsvPutSale(i) ==
  /\ i \in 1..Len(pending)
  /\ pending[i].op = "importCSV" /\ pending[i].pc = "putSale"
  /\ LET h == pending[i]
         r == Head(h.todoS)
         sale == [inventoryId |-> r.inventoryId]
     IN IF TxPutSaleOk(r.id, sale)
        THEN /\ salesStore' = StorePut(salesStore, r.id, sale)
             /\ pending' = SetH(i, [h EXCEPT !.todoS = Tail(h.todoS),
                                      !.pc = CsvPc(<<>>, Tail(h.todoS))])
             /\ lastOp' = Quiet
        ELSE /\ salesStore' = salesStore
             /\ pending' = RemoveAt(pending, i)
             /\ lastOp' = LastOp("rejected", h.op, r.inventoryId)
  /\ UNCHANGED <<invStore, allInv, allSales, invForm, saleForm, tradeSelected,
                 nextInv, nextSale, slots, opsLeft, importsLeft, stats, expStore, allExpenses>>

\* ------------------------------------------------------- the application
NoStats == [phase |-> "off"]

\* A session of an installed application: the stores hold one in-stock
\* item (an earlier handleInvSave), init() has run reloadAll and rerenderAll.
OneItem == (1 :> [status |-> "in_stock"])

InitStores ==
  /\ invStore = OneItem
  /\ salesStore = EmptyStore
  /\ allInv = OneItem
  /\ allSales = EmptyStore
  /\ invForm = NoId
  /\ saleForm = [inventoryId |-> NoId, saleId |-> NoId]
  /\ tradeSelected = {}
  /\ pending = <<>>
  /\ nextInv = 2
  /\ nextSale = 1
  /\ opsLeft = MaxOps
  /\ importsLeft = MaxImports
  /\ lastOp = Quiet
  /\ stats = NoStats
  /\ expStore = EmptyStore
  /\ allExpenses = EmptyStore

\* the user waits for each operation to complete before starting the next
Init == InitStores /\ slots = 1

\* the user starts an operation while earlier handlers still await storage
InitAsync == InitStores /\ slots = MaxPending

Slots == 1..MaxPending
AllFileInvRecs == [id : ItemIds \cup {NoId}, status : ImportStatuses]
AllFileSaleRecs == [id : SaleIds \cup {NoId}, inventoryId : ItemIds \cup {GhostId}]

Next ==
  \/ \E id \in ItemIds : InvEditClick(id)
  \/ InvSaveStart
  \/ \E i \in Slots : InvSavePut(i)
  \/ \E id \in ItemIds : SellOpenStart(id)
  \/ \E id \in ItemIds : PickerStart(id)
  \/ \E i \in Slots : FormLoad(i)
  \/ SaleFormReset
  \/ SaleSaveStart
  \/ SaleSaveInvalid
  \/ \E i \in Slots : SaleSavePutSale(i)
  \/ \E i \in Slots : SaleSavePutInv(i)
  \/ \E id \in ItemIds : DeleteStart(id)
  \/ \E i \in Slots : DeleteSale(i)
  \/ \E i \in Slots : DeleteInv(i)
  \/ \E id \in ItemIds : TradePick(id)
  \/ TradeClear
  \/ TradeStart
  \/ \E i \in Slots : TradePutOld(i)
  \/ \E i \in Slots : TradeDelSale(i)
  \/ \E i \in Slots : TradePutNew(i)
  \/ \E nInv \in 0..MaxFileRecs : \E nSales \in 0..MaxFileRecs :
        ImportJSONStart(nInv, nSales)
  \/ \E i \in Slots : \E r \in AllFileInvRecs : ImportPutInv(i, r)
  \/ \E i \in Slots : \E r \in AllFileSaleRecs : ImportPutSale(i, r)
  \/ \E n \in 1..MaxFileRecs : \E w \in [1..n -> BOOLEAN] : ImportCSVStart(n, w)
  \/ \E i \in Slots : CsvPutInv(i)
  \/ \E i \in Slots : CsvPutSale(i)
  \/ \E i \in Slots : ReloadInv(i)
  \/ \E i \in Slots : ReloadSales(i)
  \/ \E i \in Slots : ReloadDone(i)

Spec == Init /\ [][Next]_vars

SpecAsync == InitAsync /\ [][Next]_vars

\* ------------------------------------------------ the stats computation
\* A JavaScript Number is modelled exactly, as a fraction <<n, d>> of
\* integers in lowest terms with d > 0; the rounding of binary floating
\* point is not modelled.
Abs(n) == IF n < 0 THEN -n ELSE n

RECURSIVE GCD(_, _)
GCD(a, b) == IF b = 0 THEN a ELSE GCD(b, a % b)

Norm(n, d) == LET g == GCD(Abs(n), d) IN <<n \div g, d \div g>>
Rat(n) == <<n, 1>>
RAdd(a, b) == Norm(a[1] * b[2] + b[1] * a[2], a[2] * b[2])
RSub(a, b) == Norm(a[1] * b[2] - b[1] * a[2], a[2] * b[2])
RMul(a, b) == Norm(a[1] * b[1], a[2] * b[2])
\* a / b for b > 0
RDiv(a, b) == Norm(a[1] * b[2], a[2] * b[1])
Zero == Rat(0)
One == Rat(1)

\* the sum of the values of a function (or sequence) of fractions
RECURSIVE RSum(_)
RSum(f) ==
  IF DOMAIN f = {} THEN Zero
  ELSE LET k == CHOOSE k \in DOMAIN f : TRUE
       IN RAdd(f[k], RSum([j \in DOMAIN f \ {k} |-> f[j]]))

\* the sum of the values of a function (or sequence) of integers
RECURSIVE ISum(_)
ISum(f) ==
  IF DOMAIN f = {} THEN 0
  ELSE LET k == CHOOSE k \in DOMAIN f : TRUE
       IN f[k] + ISum([j \in DOMAIN f \ {k} |-> f[j]])

Restrict(f, S) == [k \in S |-> f[k]]

\* A stored amount is <<n>>, or Missing when the field is absent or blank.
Missing == <<>>
Num(n) == <<n>>

\* toNum: null, undefined, "" and anything not finite give 0
toNum(v) == IF v = Missing THEN 0 ELSE v[1]

\* A date "YYYY-MM-DD" is <<month, day>>, months counted from January of
\* a leap year; NoDate is a missing or blank date, BadDate the string "n/a",
\* which is no date.
NoDate == <<>>
BadDate == <<0, 0>>
NoMonth == <<>>

\* ym: the "YYYY-MM" prefix of a string of the form YYYY-MM-DD, else null
ym(dateStr) == IF dateStr \in {NoDate, BadDate} THEN NoMonth ELSE <<dateStr[1]>>

\* (s.soldDate || "") >= startStr, the comparison of strings: a letter
\* sorts after every digit
DateGE(a, b) ==
  /\ a # NoDate
  /\ \/ a = BadDate
     \/ a[1] > b[1]
     \/ a[1] = b[1] /\ a[2] >= b[2]

\* the days of the year before the first day of a month
DaysBefore == <<0, 31, 60, 91>>

\* new Date("YYYY-MM-DD") in days (midnight UTC)
DayNumber(d) == DaysBefore[d[1]] + d[2]

\* the difference of the two dates in days, negative for a sale before
\* the purchase
daysBetweenSigned(dateA, dateB) ==
  IF dateA \in {NoDate, BadDate} \/ dateB \in {NoDate, BadDate} THEN Missing
  ELSE Num(DayNumber(dateB) - DayNumber(dateA))

\* daysBetween: null (Missing) when a date is missing or no date, else
\* Math.max(0, Math.round(ms / 86400000))
daysBetween(dateA, dateB) ==
  IF dateA \in {NoDate, BadDate} \/ dateB \in {NoDate, BadDate} THEN Missing
  ELSE LET days == DayNumber(dateB) - DayNumber(dateA)
       IN Num(IF days < 0 THEN 0 ELSE days)

\* String.prototype.trim on the strings of the model
Trim(v) ==
  CASE v = " A" -> "A"
    [] v = " " -> ""
    [] v = " eBay" -> "eBay"
    [] v = "new_sealed " -> "new_sealed"
    [] OTHER -> v

\* (v || "").trim()
normalizeBatch(v) == Trim(v)

\* the names every object literal inherits from Object.prototype
ObjectPrototypeKeys == {"constructor", "toString", "valueOf", "hasOwnProperty"}

\* the keys of CONDITION_LABELS, in the order of condOrder
condOrder == <<"new_sealed", "new_openbox", "used_complete", "used_incomplete">>

\* CONDITION_LABELS[key] is truthy: an own key or an inherited member
HasConditionLabel(key) ==
  key \in {condOrder[i] : i \in DOMAIN condOrder} \cup ObjectPrototypeKeys

\* normalizeCondition: CONDITION_LABELS[key] ? key : "used_incomplete"
normalizeCondition(v) ==
  LET key == Trim(v) IN IF HasConditionLabel(key) THEN key ELSE "used_incomplete"

invTotalCost(inv) == toNum(inv.purchaseCost) + toNum(inv.materialCost)

saleItemRevenue(s) == toNum(s.itemPrice)

saleShippingRevenue(s) == toNum(s.shippingCharged)

saleDirectCosts(inv, s) ==
  invTotalCost(inv) + toNum(s.shippingPaid) + toNum(s.platformFees)

\* statsRangeFilter with #statsRange = range; start is the day the range
\* begins, computed from the clock
statsRangeFilter(sales, range, start) ==
  IF range = "all" THEN sales
  ELSE Restrict(sales, {k \in DOMAIN sales : DateGE(sales[k].soldDate, start)})

\* statsBatchFilterSales with #statsBatchFilter = b
statsBatchFilterSales(sales, b) ==
  IF b = "all" THEN sales
  ELSE Restrict(sales, {k \in DOMAIN sales :
         /\ sales[k].inventoryId \in DOMAIN allInv
         /\ normalizeBatch(allInv[sales[k].inventoryId].batch) = b})

\* the bucket of an expense category in sumExpensesByType
ExpenseBucket(cat) ==
  IF cat \in {"Supplies", "Parts"} THEN "material"
  ELSE IF cat = "Shipping" THEN "shipping"
  ELSE "other"

\* totals[b]: the amounts of the expenses of bucket b; if (!amt) continue
BucketTotal(expenses, b) ==
  ISum([i \in {j \in DOMAIN expenses :
                 /\ toNum(expenses[j].amount) # 0
                 /\ ExpenseBucket(expenses[j].category) = b}
          |-> toNum(expenses[i].amount)])

\* totalRev || 0.00001
Epsilon == <<1, 100000>>

\* totals: the three buckets of sumExpensesByType
BucketTotals(expenses) ==
  [material |-> BucketTotal(expenses, "material"),
   shipping |-> BucketTotal(expenses, "shipping"),
   other |-> BucketTotal(expenses, "other")]

\* revBySaleId: the item price of every sale in scope whose item is sold
RevBySaleId(salesInScope) ==
  [k \in {j \in DOMAIN salesInScope :
            /\ salesInScope[j].inventoryId \in DOMAIN allInv
            /\ StatusOf(allInv[salesInScope[j].inventoryId]) = "sold"}
     |-> saleItemRevenue(salesInScope[k])]

\* the months in which a sale of the scope was made
SaleMonths(salesInScope) ==
  {ym(salesInScope[k].soldDate) : k \in DOMAIN salesInScope} \ {NoMonth}

\* an allocation that pools only the expenses dated in a month of a sale in
\* scope
sumExpensesOfSaleMonths(expenses, salesInScope) ==
  LET dated == {j \in DOMAIN expenses :
                  ym(expenses[j].date) \in SaleMonths(salesInScope)}
      totalRev == ISum(RevBySaleId(salesInScope))
  IN [totals |-> BucketTotals(Restrict(expenses, dated)),
      revBySaleId |-> RevBySaleId(salesInScope),
      totalRev |-> IF totalRev = 0 THEN Epsilon ELSE Rat(totalRev)]

\* sumExpensesByType: every expense is pooled, whatever its date
sumExpensesByType(expenses, salesInScope) ==
  LET totalRev == ISum(RevBySaleId(salesInScope))
  IN [totals |-> BucketTotals(expenses),
      revBySaleId |-> RevBySaleId(salesInScope),
      totalRev |-> IF totalRev = 0 THEN Epsilon ELSE Rat(totalRev)]

\* (alloc.revBySaleId.get(sale.id) || 0) / alloc.totalRev
Weight(sale, alloc) ==
  RDiv(Rat(IF sale.id \in DOMAIN alloc.revBySaleId
           THEN alloc.revBySaleId[sale.id] ELSE 0),
       alloc.totalRev)

computeSaleNet(inv, sale, alloc) ==
  LET revenue == saleItemRevenue(sale) + saleShippingRevenue(sale)
      direct == saleDirectCosts(inv, sale)
      w == Weight(sale, alloc)
      allocMaterial == RMul(Rat(alloc.totals.material), w)
      allocShipping == RMul(Rat(alloc.totals.shipping), w)
      allocOther == RMul(Rat(alloc.totals.other), w)
  IN [revenue |-> revenue, directCosts |-> direct,
      allocMaterial |-> allocMaterial, allocShipping |-> allocShipping,
      allocOther |-> allocOther,
      netProfit |-> RSub(RSub(RSub(RSub(Rat(revenue), Rat(direct)),
                                   allocMaterial), allocShipping), allocOther)]

\* inventory in the scope of the batch filter, exchanged items excluded
getStatsBatchScopedInventory(b) ==
  LET base == {id \in DOMAIN allInv : StatusOf(allInv[id]) # "exchanged"}
  IN IF b = "all" THEN base
     ELSE {id \in base : normalizeBatch(allInv[id].batch) = b}

\* a < b on fractions
RLess(a, b) == a[1] * b[2] < b[1] * a[2]

\* The keys of a Map filled by one set(key, ...) per row, in the order the
\* Map iterates them, which is the order of first insertion. label[k] is the
\* key of row k; the rows are visited in the order of the array (ascending k).
MapKeys(label) ==
  LET firsts == {Min({j \in DOMAIN label : label[j] = label[k]}) : k \in DOMAIN label}
      order == SetToSeq(firsts)
  IN [i \in DOMAIN order |-> label[order[i]]]

\* [...map.entries()] of a Map that accumulates value[k] under label[k]
MapEntries(label, value) ==
  LET keys == MapKeys(label)
  IN [i \in DOMAIN keys |->
        [key |-> keys[i],
         val |-> RSum([k \in {j \in DOMAIN label : label[j] = keys[i]} |-> value[k]])]]

\* entries.sort((a, b) => b[1] - a[1]): the sort is stable, so an entry
\* goes behind the entries with a larger value and before those of the
\* entries after it that have the same value
RECURSIVE SortDesc(_)
SortDesc(entries) ==
  IF entries = <<>> THEN <<>>
  ELSE LET x == Head(entries)
           rest == SortDesc(Tail(entries))
           n == Cardinality({i \in DOMAIN rest : RLess(x.val, rest[i].val)})
       IN SubSeq(rest, 1, n) \o <<x>> \o SubSeq(rest, n + 1, Len(rest))

\* the number of entries a breakdown chart shows
TopCount == 10

\* .slice(0, 10) of the entries as the Map iterates them
FirstEntries(entries) ==
  SubSeq(entries, 1, IF Len(entries) < TopCount THEN Len(entries) ELSE TopCount)

\* .sort((a, b) => b[1] - a[1]).slice(0, 10)
TopEntries(entries) ==
  LET sorted == SortDesc(entries)
  IN SubSeq(sorted, 1, IF Len(sorted) < TopCount THEN Len(sorted) ELSE TopCount)

\* [...map.keys()]
InsertionKeys(keys) == keys

\* [...map.keys()].sort() of "YYYY-MM" keys: the order of the strings is
\* the order of the months
SortKeys(keys) ==
  LET order == SetToSeq({keys[i][1] : i \in DOMAIN keys})
  IN [i \in DOMAIN order |-> <<order[i]>>]

\* (r.sale.soldOn || "Unknown").trim() || "Unknown", the same for city
LabelOrUnknown(v) == IF Trim(v) = "" THEN "Unknown" ELSE Trim(v)

\* normalizeBatch(r.inv.batch) || "No Batch"
BatchLabel(v) == IF normalizeBatch(v) = "" THEN "No Batch" ELSE normalizeBatch(v)

\* the items of allInv of a condition that are in stock
inStockCountByCond(c) ==
  Cardinality({id \in DOMAIN allInv :
                 /\ StatusOf(allInv[id]) = "in_stock"
                 /\ normalizeCondition(allInv[id].condition) = c})

\* invCountByCond.get(c) || 0: the items of allInv that are not exchanged
invCountByCond(c) ==
  Cardinality({id \in DOMAIN allInv :
                 /\ StatusOf(allInv[id]) # "exchanged"
                 /\ normalizeCondition(allInv[id].condition) = c})

\* The data renderCharts hands to the charts, for the sales in scope.
renderCharts(sales, alloc) ==
  LET rows == DOMAIN sales
      inv(k) == allInv[sales[k].inventoryId]
      net == [k \in rows |-> computeSaleNet(inv(k), sales[k], alloc)]
      profit == [k \in rows |-> net[k].netProfit]
      revenue == [k \in rows |-> Rat(net[k].revenue)]
      dated == {k \in rows : ym(sales[k].soldDate) # NoMonth}
      monthOf == [k \in dated |-> ym(sales[k].soldDate)]
      months == SortKeys(MapKeys(monthOf))
      byMonth(value, m) == RSum([k \in {j \in dated : monthOf[j] = m} |-> value[k]])
      market == [k \in rows |-> LabelOrUnknown(sales[k].soldOn)]
      marketTop == TopEntries(MapEntries(market, profit))
      city == [k \in rows |-> LabelOrUnknown(sales[k].city)]
      cond == [k \in rows |-> normalizeCondition(inv(k).condition)]
      soldByCond(c) == Cardinality({k \in rows : cond[k] = c})
      batch == [k \in rows |-> BatchLabel(inv(k).batch)]
      batchTop == TopEntries(MapEntries(batch, profit))
      byLabel(label, value, l) ==
        RSum([k \in {j \in rows : label[j] = l} |-> value[k]])
  IN [months |-> months,
      profitVals |-> [i \in DOMAIN months |-> byMonth(profit, months[i])],
      revVals |-> [i \in DOMAIN months |-> byMonth(revenue, months[i])],
      marketTop |-> marketTop,
      marketRevVals |-> [i \in DOMAIN marketTop |->
                           byLabel(market, revenue, marketTop[i].key)],
      cityTop |-> TopEntries(MapEntries(city, profit)),
      condProfitVals |->
        [i \in DOMAIN condOrder |->
           RSum([k \in {j \in rows : cond[j] = condOrder[i]} |-> profit[k]])],
      sellThroughVals |->
        [i \in DOMAIN condOrder |->
           IF invCountByCond(condOrder[i]) = 0 THEN Zero
           ELSE RMul(RDiv(Rat(soldByCond(condOrder[i])),
                          Rat(invCountByCond(condOrder[i]))), Rat(100))],
      batchTop |-> batchTop,
      batchSpentVals |->
        [i \in DOMAIN batchTop |->
           ISum([k \in {j \in rows : batch[j] = batchTop[i].key}
                   |-> invTotalCost(inv(k))])],
      batchRevVals |-> [i \in DOMAIN batchTop |->
                          byLabel(batch, revenue, batchTop[i].key)]]

\* renderStats with the selects at range and batch: the sales in scope, the
\* allocation, the per-sale results and the KPIs written to the page
\* (the charts are the work of renderCharts)
renderStats(range, start, batch) ==
  LET soldInvIds == {id \in DOMAIN allInv : StatusOf(allInv[id]) = "sold"}
      sold == Restrict(allSales, {k \in DOMAIN allSales :
                                    allSales[k].inventoryId \in soldInvIds})
      sales == statsBatchFilterSales(statsRangeFilter(sold, range, start), batch)
      alloc == sumExpensesByType(allExpenses, sales)
      net == [k \in DOMAIN sales |->
                computeSaleNet(allInv[sales[k].inventoryId], sales[k], alloc)]
      itemRevenue == ISum([k \in DOMAIN sales |-> saleItemRevenue(sales[k])])
      shippingCharged ==
        ISum([k \in DOMAIN sales |-> saleShippingRevenue(sales[k])])
      netProfit == RSum([k \in DOMAIN sales |-> net[k].netProfit])
      grossTake == itemRevenue + shippingCharged
      invScope == getStatsBatchScopedInventory(batch)
      unsoldInv == {id \in invScope : StatusOf(allInv[id]) = "in_stock"}
      soldInv == {id \in invScope : StatusOf(allInv[id]) = "sold"}
      scopeSize == IF invScope = {} THEN 1 ELSE Cardinality(invScope)
      days == [k \in DOMAIN sales |->
                 daysBetween(allInv[sales[k].inventoryId].purchaseDate,
                             sales[k].soldDate)]
      counted == {k \in DOMAIN sales : days[k] # Missing}
      totalDays == ISum([k \in counted |-> days[k][1]])
      daysCount == Cardinality(counted)
  IN [sales |-> DOMAIN sales,
      alloc |-> alloc,
      net |-> net,
      kpiRevenue |-> itemRevenue,
      kpiShipCharged |-> shippingCharged,
      kpiShipPaid |-> ISum([k \in DOMAIN sales |-> toNum(sales[k].shippingPaid)]),
      kpiFees |-> ISum([k \in DOMAIN sales |-> toNum(sales[k].platformFees)]),
      kpiPurchase |-> ISum([k \in DOMAIN sales |->
                              toNum(allInv[sales[k].inventoryId].purchaseCost)]),
      kpiMaterial |-> RSum([k \in DOMAIN sales |->
                              RAdd(Rat(toNum(allInv[sales[k].inventoryId].materialCost)),
                                   net[k].allocMaterial)]),
      kpiOther |-> RAdd(RSum([k \in DOMAIN sales |-> net[k].allocOther]),
                        RSum([k \in DOMAIN sales |-> net[k].allocShipping])),
      kpiProfit |-> netProfit,
      kpiMargin |-> IF grossTake > 0
                    THEN RMul(RDiv(netProfit, Rat(grossTake)), Rat(100)) ELSE Zero,
      kpiAvgProfit |-> IF DOMAIN sales # {}
                       THEN RDiv(netProfit, Rat(Cardinality(DOMAIN sales))) ELSE Zero,
      kpiInvestedUnsold |-> ISum([id \in unsoldInv |-> invTotalCost(allInv[id])]),
      kpiUnsoldCount |-> Cardinality(unsoldInv),
      kpiSellThrough |-> RMul(RDiv(Rat(Cardinality(soldInv)), Rat(scopeSize)),
                              Rat(100)),
      kpiAvgDays |-> IF daysCount = 0 THEN 0
                     ELSE (2 * totalDays + daysCount) \div (2 * daysCount)]

\* no chart has been drawn
NoCharts == <<>>

\* a chart that is kept and given the new data next to the old
appendCharts(old, data) ==
  IF old = NoCharts THEN data
  ELSE [data EXCEPT !.months = old.months \o data.months,
                    !.profitVals = old.profitVals \o data.profitVals]

\* destroyChart(key); charts[key] = new Chart(el, {data}): the chart drawn
\* before is discarded
drawCharts(old, data) == data

\* ---- the single-store variant: one flip record per item
\* isSold: !!item.soldDate && soldPrice > 0
isSold(item) == item.soldDate # NoDate /\ toNum(item.soldPrice) > 0

calcFlip(item) ==
  LET purchase == toNum(item.purchaseCost)
      material == toNum(item.materialCost)
      shipping == toNum(item.fees)
      revenue == toNum(item.soldPrice)
      directCost == purchase + material + shipping
  IN [revenue |-> revenue, purchase |-> purchase, material |-> material,
      shipping |-> shipping, directCost |-> directCost,
      profit |-> revenue - directCost, sold |-> isSold(item)]


\* EXPENSE_CATEGORY_MAP[(e.category || "").trim()] || "other": a bucket
\* name, or the inherited member itself when the category names one (the
\* amount is then added to a property that is none of the three buckets)
EXPENSE_CATEGORY_MAP(cat) ==
  CASE cat \in {"Supplies", "Parts"} -> "material"
    [] cat = "Shipping" -> "shipping"
    [] cat \in {"Gas", "Fees (other)", "Other"} -> "other"
    [] cat \in ObjectPrototypeKeys -> "inherited"
    [] OTHER -> "other"

\* the expenses that expenseBucketsByMonth adds to month key
MonthExpenses(expenses, key) ==
  {j \in DOMAIN expenses : ym(expenses[j].date) = key /\ toNum(expenses[j].amount) > 0}

\* expenseBucketsByMonth: ym -> {material, shipping, other, total}, total
\* accumulated next to the buckets
expenseBucketsByMonth(expenses) ==
  LET keys == {ym(expenses[j].date) : j \in
                 {i \in DOMAIN expenses : toNum(expenses[i].amount) > 0}} \ {NoMonth}
      bucket(key, b) ==
        ISum([j \in {i \in MonthExpenses(expenses, key) :
                       EXPENSE_CATEGORY_MAP(expenses[i].category) = b}
                |-> toNum(expenses[j].amount)])
  IN [key \in keys |->
        [material |-> bucket(key, "material"),
         shipping |-> bucket(key, "shipping"),
         other |-> bucket(key, "other"),
         total |-> ISum([j \in MonthExpenses(expenses, key)
                           |-> toNum(expenses[j].amount)])]]

\* buildExpenseAllocator: the monthly buckets and the revenue and count of
\* the sold flips of each month
buildExpenseAllocator(flips, expenses) ==
  LET sold == {k \in DOMAIN flips : isSold(flips[k]) /\ ym(flips[k].soldDate) # NoMonth}
      keys == {ym(flips[k].soldDate) : k \in sold}
      soldIn(key) == {k \in sold : ym(flips[k].soldDate) = key}
  IN [expByMonth |-> expenseBucketsByMonth(expenses),
      soldRevByMonth |-> [key \in keys |->
                            ISum([k \in soldIn(key) |-> toNum(flips[k].soldPrice)])],
      soldCountByMonth |-> [key \in keys |-> Cardinality(soldIn(key))]]

NoAlloc == [material |-> Zero, shipping |-> Zero, other |-> Zero, total |-> Zero]

\* allocator.allocatedExpenseForFlip(flip)
allocatedExpenseForFlip(allocator, flip) ==
  LET key == ym(flip.soldDate)
  IN IF ~isSold(flip) \/ key = NoMonth \/ key \notin DOMAIN allocator.expByMonth
     THEN NoAlloc
     ELSE
       LET monthExp == allocator.expByMonth[key]
           totalRev == IF key \in DOMAIN allocator.soldRevByMonth
                       THEN allocator.soldRevByMonth[key] ELSE 0
           count == IF key \in DOMAIN allocator.soldCountByMonth
                    THEN allocator.soldCountByMonth[key] ELSE 0
           rev == toNum(flip.soldPrice)
           share == IF totalRev > 0 THEN RDiv(Rat(rev), Rat(totalRev))
                    ELSE IF count > 0 THEN RDiv(One, Rat(count)) ELSE Zero
       IN [material |-> RMul(Rat(monthExp.material), share),
           shipping |-> RMul(Rat(monthExp.shipping), share),
           other |-> RMul(Rat(monthExp.other), share),
           total |-> RMul(Rat(monthExp.total), share)]

calcNet(flip, allocator) ==
  LET base == calcFlip(flip)
      alloc == allocatedExpenseForFlip(allocator, flip)
  IN [base |-> base, alloc |-> alloc,
      profitNet |-> RSub(Rat(base.profit), alloc.total)]

\* rerender of the single-store variant, filters at "all": the table rows
\* (calcNet of every flip) and the KPIs of renderKPIs
rerender ==
  LET flips == stats.allFlips
      allocator == buildExpenseAllocator(flips, allExpenses)
      alloc == [k \in DOMAIN flips |-> allocatedExpenseForFlip(allocator, flips[k])]
      revenue == ISum([k \in DOMAIN flips |-> calcFlip(flips[k]).revenue])
      purchaseCost == ISum([k \in DOMAIN flips |-> calcFlip(flips[k]).purchase])
      materialCost ==
        RSum([k \in DOMAIN flips |->
                RAdd(Rat(calcFlip(flips[k]).material), alloc[k].material)])
      shippingCost ==
        RSum([k \in DOMAIN flips |->
                RAdd(Rat(calcFlip(flips[k]).shipping), alloc[k].shipping)])
      otherCost == RSum([k \in DOMAIN flips |-> alloc[k].other])
  IN [net |-> [k \in DOMAIN flips |-> calcNet(flips[k], allocator)],
      expByMonth |-> allocator.expByMonth,
      kpiRevenue |-> revenue,
      kpiPurchase |-> purchaseCost,
      kpiMaterial |-> materialCost,
      kpiShipping |-> shippingCost,
      kpiOther |-> otherCost,
      kpiProfit |-> RSub(RSub(RSub(RSub(Rat(revenue), Rat(purchaseCost)),
                                   materialCost), shippingCost), otherCost)]

\* ---- the states of the stats computation
NoOut == <<>>

\* the first day of a "30d" range, as the clock gives it
StatsStart == <<2, 1>>
StatsRanges == {"all", "30d"}
StatsBatches == {"all", "A"}

ExpenseRecs ==
  {[date |-> d, category |-> c[1], amount |-> c[2]] :
     d \in {<<2, 10>>, <<3, 5>>},
     c \in {<<"Supplies", Num(10)>>, <<"Shipping", Num(10)>>, <<"Other", Num(20)>>}}
  \cup {[date |-> <<2, 10>>, category |-> "Gas", amount |-> Missing],
        [date |-> <<2, 10>>, category |-> "constructor", amount |-> Num(10)]}

ExpenseLists == UNION {[1..n -> ExpenseRecs] : n \in 0..MaxExpenses}

StatsInvs ==
  {(1 :> [status |-> s1, purchaseCost |-> Num(20), materialCost |-> Num(2),
          batch |-> "A", condition |-> "new_sealed", purchaseDate |-> <<1, 2>>])
   @@ (2 :> [status |-> s2, purchaseCost |-> Num(7), materialCost |-> Missing,
             batch |-> b2, condition |-> "", purchaseDate |-> <<1, 20>>]) :
     s1 \in {"sold", ""}, s2 \in {"sold", "exchanged"}, b2 \in {"", " A"}}

StatsSales ==
  {(1 :> [id |-> 1, inventoryId |-> 1, soldDate |-> d1, itemPrice |-> p1,
          shippingCharged |-> c1, shippingPaid |-> Num(0),
          platformFees |-> Num(5), soldOn |-> "eBay", city |-> ""])
   @@ (2 :> [id |-> 2, inventoryId |-> 2, soldDate |-> d2, itemPrice |-> p2,
             shippingCharged |-> Num(0), shippingPaid |-> Num(3),
             platformFees |-> Missing, soldOn |-> "", city |-> "Graz"]) :
     d1 \in {<<1, 15>>, <<2, 1>>}, p1 \in {Num(0), Num(30), Num(50)},
     c1 \in {Missing, Num(5)},
     d2 \in {NoDate, <<2, 1>>}, p2 \in {Num(0), Num(70)}}

StatsFlips ==
  {<<[purchaseCost |-> Num(20), materialCost |-> Num(2), fees |-> Num(5),
      soldPrice |-> p1, soldDate |-> d1],
     [purchaseCost |-> Num(7), materialCost |-> Missing, fees |-> Num(3),
      soldPrice |-> p2, soldDate |-> d2]>> :
     p1 \in {Missing, Num(30), Num(50)}, d1 \in {NoDate, <<2, 1>>},
     p2 \in {Num(0), Num(70)}, d2 \in {<<2, 1>>, <<3, 2>>}}

\* init() of either variant has loaded the data; nothing is rendered yet
InitStats ==
  /\ invForm = NoId
  /\ saleForm = [inventoryId |-> NoId, saleId |-> NoId]
  /\ tradeSelected = {}
  /\ pending = <<>>
  /\ nextInv = 3
  /\ nextSale = 3
  /\ slots = 0
  /\ opsLeft = 0
  /\ importsLeft = 0
  /\ lastOp = Quiet
  /\ \/ /\ allInv \in StatsInvs
        /\ allSales \in StatsSales
        /\ allExpenses \in ExpenseLists
        /\ stats = [phase |-> "loaded", variant |-> "stores", allFlips |-> <<>>,
                    range |-> "all", batch |-> "all", out |-> NoOut,
                    chartJs |-> TRUE, timer |-> FALSE, charts |-> NoCharts]
     \/ /\ allInv = EmptyStore
        /\ allSales = EmptyStore
        /\ allExpenses \in ExpenseLists
        /\ \E f \in StatsFlips :
             stats = [phase |-> "loaded", variant |-> "flips", allFlips |-> f,
                      range |-> "all", batch |-> "all", out |-> NoOut,
                      chartJs |-> TRUE, timer |-> FALSE, charts |-> NoCharts]
  /\ invStore = allInv
  /\ salesStore = allSales
  /\ expStore = allExpenses

StatsUnchanged ==
  UNCHANGED <<invStore, salesStore, allInv, allSales, invForm, saleForm,
              tradeSelected, pending, nextInv, nextSale, slots, opsLeft,
              importsLeft, lastOp, expStore, allExpenses>>

\* The page after renderStats with the selects at range and batch: the
\* KPIs, and the charts when Chart.js has loaded (if (!window.Chart) return).
StatsAfterRender(range, batch) ==
  LET out == renderStats(range, StatsStart, batch)
  IN [stats EXCEPT
        !.phase = "rendered", !.range = range, !.batch = batch, !.out = out,
        !.charts = IF stats.chartJs
                   THEN drawCharts(stats.charts,
                                   renderCharts(Restrict(allSales, out.sales), out.alloc))
                   ELSE stats.charts]

\* rerenderAll at the end of init(): the first renderStats
StatsRerenderAll ==
  /\ stats.variant = "stores" /\ stats.phase = "loaded"
  /\ stats' = StatsAfterRender(stats.range, stats.batch)
  /\ StatsUnchanged

\* change of #statsRange: renderStats
StatsRangeChange(range) ==
  /\ stats.variant = "stores" /\ stats.phase = "rendered"
  /\ range # stats.range
  /\ stats' = StatsAfterRender(range, stats.batch)
  /\ StatsUnchanged

\* the options updateBatchUI gives #statsBatchFilter
BatchOptions ==
  {"all"} \cup ({normalizeBatch(allInv[id].batch) : id \in DOMAIN allInv} \ {""})

\* change of #statsBatchFilter: renderStats
StatsBatchChange(b) ==
  /\ stats.variant = "stores" /\ stats.phase = "rendered"
  /\ b # stats.batch
  /\ b \in BatchOptions
  /\ stats' = StatsAfterRender(stats.range, b)
  /\ StatsUnchanged

\* rerender at the end of init() of the single-store variant
FlipsRerender ==
  /\ stats.variant = "flips" /\ stats.phase = "loaded"
  /\ stats' = [stats EXCEPT !.phase = "rendered", !.out = rerender]
  /\ StatsUnchanged

NextStats ==
  \/ StatsRerenderAll
  \/ \E range \in StatsRanges : StatsRangeChange(range)
  \/ \E b \in StatsBatches : StatsBatchChange(b)
  \/ FlipsRerender

SpecStats == InitStats /\ [][NextStats]_vars

\* ------------------------------------------------ the charts of the stats tab
\* the largest number of sales of a data set
ManySales == 11

MarketNames ==
  <<"Amazon", "BrickLink", "BrickOwl", "Craigslist", "eBay", "Etsy", "Facebook",
    "Kijiji", "Mercari", "OfferUp", "Vinted", "Wallapop">>

CityNames == <<"Graz", "", "Linz">>

ChartInv(status, condition, batch, purchaseDate) ==
  [status |-> status, purchaseCost |-> Num(5), materialCost |-> Missing,
   batch |-> batch, condition |-> condition, purchaseDate |-> purchaseDate]

ChartSale(id, soldDate, itemPrice, soldOn, city) ==
  [id |-> id, inventoryId |-> id, soldDate |-> soldDate, itemPrice |-> Num(itemPrice),
   shippingCharged |-> Num(2), shippingPaid |-> Missing, platformFees |-> Num(1),
   soldOn |-> soldOn, city |-> city]

\* three items: the second may be unsold or traded away, and then has no sale
FewInvs ==
  {(1 :> ChartInv("sold", "new_sealed ", "B", p1))
   @@ (2 :> ChartInv(s2, c2, b2, IF c2 = "" THEN NoDate ELSE BadDate))
   @@ (3 :> ChartInv("sold", "new_sealed", "", <<1, 3>>)) :
     p1 \in {<<1, 10>>, <<3, 1>>}, s2 \in {"sold", "", "exchanged"},
     c2 \in {"new_sealed", "", "toString"}, b2 \in {" A", " "}}

FewSales(inv) ==
  {[k \in {j \in 1..3 : inv[j].status = "sold"} |->
      CASE k = 1 -> ChartSale(1, d1, p1, "eBay", "Graz")
        [] k = 2 -> ChartSale(2, d2, 30, m2, m2)
        [] k = 3 -> ChartSale(3, <<1, 5>>, 30, "BrickLink", "")] :
     d1 \in {<<3, 1>>, <<2, 1>>, BadDate}, d2 \in {<<1, 5>>, NoDate},
     p1 \in {10, 30}, m2 \in {" eBay", " ", "Unknown"}}

\* many sales, each on a marketplace of its own; at most two of them have
\* the higher of two prices
ManyInvs ==
  [k \in 1..ManySales |->
     ChartInv("sold", condOrder[(k % 4) + 1], MarketNames[k], <<1, 1>>)]

ManySalesSets ==
  {[k \in 1..ManySales |->
      ChartSale(k, <<(k % 3) + 1, k>>, IF k \in high THEN 20 ELSE 10,
                MarketNames[k], CityNames[(k % 3) + 1])] :
     high \in {S \in SUBSET (1..ManySales) : Cardinality(S) <= 2}}

ChartExpenses ==
  {<<>>, <<[date |-> <<2, 10>>, category |-> "Supplies", amount |-> Num(10)]>>}

\* ---- the first version of the page: one list of flips, two charts
\* renderCharts(list): the net profit by marketplace of the sold flips
marketsOfList(list) ==
  LET rows == {k \in DOMAIN list : calcFlip(list[k]).sold}
      market == [k \in rows |-> LabelOrUnknown(list[k].soldOn)]
      profit == [k \in rows |-> Rat(calcFlip(list[k]).profit)]
  IN TopEntries(MapEntries(market, profit))

ListFlips ==
  {<<[purchaseCost |-> Num(20), materialCost |-> Num(2), fees |-> Num(5),
      soldPrice |-> Num(p1), soldDate |-> <<2, 1>>, soldOn |-> "eBay"],
     [purchaseCost |-> Num(7), materialCost |-> Missing, fees |-> Num(3),
      soldPrice |-> Num(p2), soldDate |-> <<2, 1>>, soldOn |-> m2],
     [purchaseCost |-> Num(7), materialCost |-> Missing, fees |-> Num(3),
      soldPrice |-> Num(50), soldDate |-> d3, soldOn |-> " "]>> :
     p1 \in {30, 50}, p2 \in {0, 50}, m2 \in {"", " eBay", "Etsy"},
     d3 \in {NoDate, <<3, 2>>}}

\* init() has loaded the stores and is about to render; Chart.js, loaded by
\* a script tag of its own, may or may not be there yet
InitCharts ==
  /\ invForm = NoId
  /\ saleForm = [inventoryId |-> NoId, saleId |-> NoId]
  /\ tradeSelected = {}
  /\ pending = <<>>
  /\ nextInv = ManySales + 1
  /\ nextSale = ManySales + 1
  /\ slots = 0
  /\ opsLeft = 0
  /\ importsLeft = 0
  /\ lastOp = Quiet
  /\ \/ /\ allInv \in FewInvs
        /\ allSales \in FewSales(allInv)
        /\ allExpenses \in ChartExpenses
     \/ /\ allInv = ManyInvs
        /\ allSales \in ManySalesSets
        /\ allExpenses = <<>>
     \/ /\ allInv = EmptyStore
        /\ allSales = EmptyStore
        /\ allExpenses = <<>>
  /\ IF allInv = EmptyStore
     THEN \E f \in ListFlips :
            stats = [phase |-> "loaded", variant |-> "list", allFlips |-> f,
                     range |-> "all", batch |-> "all", out |-> NoOut,
                     chartJs |-> TRUE, timer |-> FALSE, charts |-> NoCharts]
     ELSE \E c \in {TRUE, allExpenses # <<>>} :
            stats = [phase |-> "loaded", variant |-> "stores", allFlips |-> <<>>,
                     range |-> "all", batch |-> "all", out |-> NoOut,
                     chartJs |-> c, timer |-> FALSE, charts |-> NoCharts]
  /\ invStore = allInv
  /\ salesStore = allSales
  /\ expStore = allExpenses

\* the end of init(): rerenderAll, then the interval that waits for Chart.js
InitRender ==
  /\ stats.variant = "stores" /\ stats.phase = "loaded"
  /\ stats' = [StatsAfterRender(stats.range, stats.batch) EXCEPT !.timer = TRUE]
  /\ StatsUnchanged

\* the script of Chart.js has loaded
ChartJsLoads ==
  /\ ~stats.chartJs
  /\ stats' = [stats EXCEPT !.chartJs = TRUE]
  /\ StatsUnchanged

\* a tick of the interval that finds window.Chart: clearInterval and
\* renderStats once more
ChartTimerTick ==
  /\ stats.timer /\ stats.chartJs
  /\ stats' = [StatsAfterRender(stats.range, stats.batch) EXCEPT !.timer = FALSE]
  /\ lastOp' = LastOp("timer", IF stats.charts = NoCharts THEN "draw" ELSE "redraw",
                      NoId)
  /\ UNCHANGED <<invStore, salesStore, allInv, allSales, invForm, saleForm,
                 tradeSelected, pending, nextInv, nextSale, slots, opsLeft,
                 importsLeft, expStore, allExpenses>>

\* tries > 40 without Chart.js: clearInterval
ChartTimerExpires ==
  /\ stats.timer /\ ~stats.chartJs
  /\ stats' = [stats EXCEPT !.timer = FALSE]
  /\ StatsUnchanged

\* rerender at the end of init() of the first version
ListRerender ==
  /\ stats.variant = "list" /\ stats.phase = "loaded"
  /\ stats' = [stats EXCEPT !.phase = "rendered",
                            !.charts = [marketTop |-> marketsOfList(stats.allFlips)]]
  /\ StatsUnchanged

NextCharts ==
  \/ ListRerender
  \/ InitRender
  \/ ChartJsLoads
  \/ ChartTimerTick
  \/ ChartTimerExpires
  \/ \E range \in StatsRanges : StatsRangeChange(range)
  \/ \E b \in StatsBatches : StatsBatchChange(b)

SpecCharts == InitCharts /\ [][NextCharts]_vars

\* ------------------------------------- the values the handlers store
\* Each handler below runs to its end before the next starts: validation,
\* the writes, reloadAll, rerenderAll. An inventory record is reduced to
\* status, condition and purchaseCost, an expense to amount, category, date.
MaxDataItems == 2   \* inventory ids
MaxDataOps == 3     \* operations of a session

\* Number(String(v).trim().replace(/\$/g, "").replace(/,/g, "")) of the
\* texts of the model when the number is finite, else 0
toNumOfText(text) ==
  CASE text = "7" -> 7
    [] text = "$7" -> 7
    [] text = "-5" -> -5
    [] OTHER -> 0

\* String(v || "").trim().toLowerCase() on the texts of the model
LowerTrim(v) ==
  CASE v = "Sealed" -> "sealed"
    [] v = "Open box" -> "open box"
    [] v = "Used Incomplete" -> "used incomplete"
    [] v = "toString" -> "tostring"
    [] OTHER -> Trim(v)

\* s.includes(word) for the lower-cased texts of the model; a text that
\* contains "incomplete" contains "complete"
Includes(s, word) ==
  CASE word = "sealed" -> s \in {"sealed", "new_sealed", "sealed, opened"}
    [] word = "open" -> s \in {"open box", "new_openbox", "sealed, opened"}
    [] word = "incomplete" ->
         s \in {"incomplete", "used_incomplete", "used incomplete"}
    [] word = "complete" ->
         s \in {"complete", "used_complete", "incomplete", "used_incomplete",
                 "used incomplete"}
    [] OTHER -> FALSE

\* conditionFromText: the lower-cased text is searched for "sealed", "open",
\* "complete" and "incomplete" in this order, else normalizeCondition
conditionFromText(v) ==
  LET s == LowerTrim(v)
  IN IF s = "" THEN "used_incomplete"
     ELSE IF Includes(s, "sealed") THEN "new_sealed"
     ELSE IF Includes(s, "open") THEN "new_openbox"
     ELSE IF Includes(s, "complete") THEN "used_complete"
     ELSE IF Includes(s, "incomplete") THEN "used_incomplete"
     ELSE normalizeCondition(s)

\* the normalize loop of reloadAll on the fields of these records
NormalizeData(inv) ==
  [k \in DOMAIN inv |->
     [status |-> StatusOf(inv[k]),
      condition |-> normalizeCondition(inv[k].condition),
      purchaseCost |-> Num(toNum(inv[k].purchaseCost)),
      materialCost |-> Num(toNum(inv[k].materialCost))]]

\* what the user types into the forms
FormCosts == {"7", "-5", "abc"}
FormConditions == {"new_sealed", ""}
FormAmounts == {"7", "-5", ""}

\* what a CSV file holds in a row
CsvCosts == {"$7", "-5"}
CsvConditions == {"Sealed", "incomplete", "constructor"}

\* what a JSON file holds in a record
JsonInvRecs ==
  {[status |-> st, condition |-> c, purchaseCost |-> cost[1],
    materialCost |-> cost[2]] :
     st \in {"", "sold"}, c \in {"constructor", "mint"},
     cost \in {<<Missing, Missing>>, <<Num(-5), Num(2)>>}}
JsonExpenseRecs ==
  [amount : {Missing, Num(-3), Num(0), Num(4)}, category : {"Other"},
   date : {<<2, 10>>}]

InitData ==
  /\ invStore = EmptyStore
  /\ salesStore = EmptyStore
  /\ expStore = <<>>
  /\ allInv = EmptyStore
  /\ allSales = EmptyStore
  /\ allExpenses = <<>>
  /\ invForm = NoId
  /\ saleForm = [inventoryId |-> NoId, saleId |-> NoId]
  /\ tradeSelected = {}
  /\ pending = <<>>
  /\ nextInv = 1
  /\ nextSale = 1
  /\ slots = 0
  /\ opsLeft = MaxDataOps
  /\ importsLeft = 0
  /\ lastOp = Quiet
  /\ stats = NoStats

\* the end of every handler: reloadAll reads the stores and normalizes
DataDone(op) ==
  /\ allInv' = NormalizeData(invStore')
  /\ allExpenses' = expStore'
  /\ opsLeft' = opsLeft - 1
  /\ lastOp' = LastOp("data", op, NoId)
  /\ UNCHANGED <<salesStore, allSales, invForm, saleForm, tradeSelected, pending,
                 nextSale, slots, importsLeft, stats>>

\* handleInvSave with name and purchase date filled in: a new item, or the
\* item id loaded into the form by Edit
handleInvSave(id, costText, cond) ==
  /\ opsLeft > 0
  /\ id \in (DOMAIN allInv) \cup {nextInv}
  /\ id <= MaxDataItems
  /\ invStore' = StorePut(invStore, id,
                          [status |-> IF id \in DOMAIN allInv
                                      THEN StatusOf(allInv[id]) ELSE "in_stock",
                           condition |-> normalizeCondition(cond),
                           purchaseCost |-> Num(toNumOfText(costText)),
                           materialCost |-> Num(toNumOfText(""))])
  /\ nextInv' = IF id = nextInv THEN nextInv + 1 ELSE nextInv
  /\ expStore' = expStore
  /\ DataDone("handleInvSave")

\* importCSVFile of a file with one row that has a name and a purchase date
importCSVFile(costText, condText) ==
  /\ opsLeft > 0
  /\ nextInv <= MaxDataItems
  /\ invStore' = StorePut(invStore, nextInv,
                          [status |-> "in_stock",
                           condition |-> conditionFromText(condText),
                           purchaseCost |-> Num(toNumOfText(costText)),
                           materialCost |-> Num(toNumOfText(""))])
  /\ nextInv' = nextInv + 1
  /\ expStore' = expStore
  /\ DataDone("importCSVFile")

\* importJSON of a file with the inventory records invRecs (id -> record)
\* and the expense records expRecs (position in the store -> record, a
\* position past the end for a record with a new id)
importJSON(invRecs, expRecs) ==
  /\ opsLeft > 0
  /\ DOMAIN invRecs \subseteq 1..nextInv
  /\ DOMAIN invRecs \subseteq 1..MaxDataItems
  /\ DOMAIN expRecs \subseteq 1..(Len(expStore) + 1)
  /\ DOMAIN expRecs \subseteq 1..MaxExpenses
  /\ invStore' = [k \in (DOMAIN invStore) \cup (DOMAIN invRecs) |->
                    IF k \in DOMAIN invRecs THEN invRecs[k] ELSE invStore[k]]
  /\ nextInv' = IF nextInv \in DOMAIN invRecs THEN nextInv + 1 ELSE nextInv
  /\ expStore' = [k \in (DOMAIN expStore) \cup (DOMAIN expRecs) |->
                    IF k \in DOMAIN expRecs THEN expRecs[k] ELSE expStore[k]]
  /\ DataDone("importJSON")

\* mutant: only the purchase costs are carried over
purchaseCostSumOnly(selectedInvs) ==
  [purchaseCost |-> ISum([id \in selectedInvs |-> toNum(allInv[id].purchaseCost)]),
   materialCost |-> 0]

\* purchaseCostSum and materialCostSum over selectedInvs
costSums(selectedInvs) ==
  [purchaseCost |-> ISum([id \in selectedInvs |-> toNum(allInv[id].purchaseCost)]),
   materialCost |-> ISum([id \in selectedInvs |-> toNum(allInv[id].materialCost)])]

\* handleTradeSubmit of the selected items sel for a new item: the items in
\* stock among them are written back as exchanged, the new item carries the
\* sums of their purchase costs and of their material costs
handleTradeSubmit(sel, cond) ==
  LET selectedInvs == {id \in sel : StatusOf(allInv[id]) = "in_stock"}
  IN /\ opsLeft > 0
     /\ sel # {}
     /\ sel \subseteq DOMAIN allInv
     /\ selectedInvs # {}
     /\ nextInv <= MaxDataItems
     /\ invStore' =
          [k \in (DOMAIN invStore) \cup {nextInv} |->
             IF k = nextInv
             THEN [status |-> "in_stock", condition |-> normalizeCondition(cond),
                   purchaseCost |-> Num(costSums(selectedInvs).purchaseCost),
                   materialCost |-> Num(costSums(selectedInvs).materialCost)]
             ELSE IF k \in selectedInvs THEN [allInv[k] EXCEPT !.status = "exchanged"]
             ELSE invStore[k]]
     /\ nextInv' = nextInv + 1
     /\ expStore' = expStore
     /\ DataDone("handleTradeSubmit")

\* handleExpenseAdd with date and category filled in: the expense is stored
\* when its amount is a number above 0
handleExpenseAdd(amountText) ==
  /\ opsLeft > 0
  /\ Len(expStore) < MaxExpenses
  /\ toNumOfText(amountText) > 0
  /\ expStore' = Append(expStore, [amount |-> Num(toNumOfText(amountText)),
                                   category |-> "Other", date |-> <<2, 10>>])
  /\ UNCHANGED <<invStore, nextInv>>
  /\ DataDone("handleExpenseAdd")

\* handleExpenseAdd with an amount that is no number above 0: a toast
handleExpenseAddRejected(amountText) ==
  /\ opsLeft > 0
  /\ ~(toNumOfText(amountText) > 0)
  /\ UNCHANGED <<invStore, nextInv, expStore, allInv, allExpenses>>
  /\ opsLeft' = opsLeft - 1
  /\ lastOp' = LastOp("data", "rejected", NoId)
  /\ UNCHANGED <<salesStore, allSales, invForm, saleForm, tradeSelected, pending,
                 nextSale, slots, importsLeft, stats>>

\* handleExpenseTableClick on the delete button of expense i
handleExpenseTableClick(i) ==
  /\ opsLeft > 0
  /\ i \in DOMAIN allExpenses
  /\ expStore' = RemoveAt(expStore, i)
  /\ UNCHANGED <<invStore, nextInv>>
  /\ DataDone("handleExpenseTableClick")

\* handleExpensesClear, confirmed
handleExpensesClear ==
  /\ opsLeft > 0
  /\ expStore' = <<>>
  /\ UNCHANGED <<invStore, nextInv>>
  /\ DataDone("handleExpensesClear")

\* mutant: the file is written from the records of the store
ExportedFromStore == invStore

\* exportJSON, inventory: allInv, the array in memory
ExportedInventory == allInv

\* exportJSON followed by importJSON of the file it wrote: the file holds
\* allInv and allExpenses, and every record of it is put under its id
exportThenImport ==
  /\ opsLeft > 0
  /\ DOMAIN allInv # {}
  /\ invStore' = [k \in (DOMAIN invStore) \cup (DOMAIN ExportedInventory) |->
                    IF k \in DOMAIN ExportedInventory
                    THEN ExportedInventory[k] ELSE invStore[k]]
  /\ expStore' = [k \in (DOMAIN expStore) \cup (DOMAIN allExpenses) |->
                    IF k \in DOMAIN allExpenses THEN allExpenses[k] ELSE expStore[k]]
  /\ nextInv' = nextInv
  /\ DataDone("exportThenImport")

\* the files of importJSON: at most one inventory and one expense record
JsonInvFiles ==
  {EmptyStore} \cup {(id :> r) : id \in 1..MaxDataItems, r \in JsonInvRecs}
JsonExpenseFiles ==
  {EmptyStore} \cup {(i :> r) : i \in 1..MaxExpenses, r \in JsonExpenseRecs}

NextData ==
  \/ \E id \in 1..MaxDataItems, costText \in FormCosts, cond \in FormConditions :
       handleInvSave(id, costText, cond)
  \/ \E costText \in CsvCosts, condText \in CsvConditions :
       importCSVFile(costText, condText)
  \/ \E invRecs \in JsonInvFiles, expRecs \in JsonExpenseFiles :
       importJSON(invRecs, expRecs)
  \/ \E sel \in SUBSET (1..MaxDataItems), cond \in FormConditions :
       handleTradeSubmit(sel, cond)
  \/ \E amountText \in FormAmounts : handleExpenseAdd(amountText)
  \/ \E amountText \in FormAmounts : handleExpenseAddRejected(amountText)
  \/ \E i \in 1..MaxExpenses : handleExpenseTableClick(i)
  \/ handleExpensesClear
  \/ exportThenImport

SpecData == InitData /\ [][NextData]_vars

\* ------------------------------------------------------ filters of the page
\* The form elements the inventory list and the stats tab read. Two pages
\* over the same stores are followed side by side.
ListElements == {"searchInput", "statusFilter", "conditionFilter", "batchFilter"}
StatsElements == {"statsRange", "statsBatchFilter"}

\* the values a user can give the elements
ElementValues(el) ==
  CASE el = "searchInput" -> {"", "sold"}
    [] el = "statusFilter" -> {"all", "sold"}
    [] el = "conditionFilter" -> {"all", "new_sealed"}
    [] el = "batchFilter" -> StatsBatches
    [] el = "statsRange" -> StatsRanges
    [] el = "statsBatchFilter" -> StatsBatches

PageDoms ==
  {[searchInput |-> q, statusFilter |-> st, conditionFilter |-> c, batchFilter |-> b,
    statsRange |-> r, statsBatchFilter |-> sb] :
     q \in ElementValues("searchInput"), st \in ElementValues("statusFilter"),
     c \in ElementValues("conditionFilter"), b \in ElementValues("batchFilter"),
     r \in ElementValues("statsRange"), sb \in ElementValues("statsBatchFilter")}

\* mutant: the stats read the batch select of the inventory list
ListBatchElement == "batchFilter"

\* $("#statsBatchFilter"), the element statsBatchFilterSales and
\* getStatsBatchScopedInventory read
StatsBatchElement == "statsBatchFilter"

\* hay.includes(q) for the query words of the model: of the texts joined into
\* the haystack only the status of a sold item holds "sold"
HayIncludes(inv, q) == q = "sold" /\ inv.status = "sold"

\* getFilteredInventory: the ids of the items of allInv that pass the status,
\* condition and batch filters and the search text
getFilteredInventory(dom) ==
  LET q == Trim(dom["searchInput"])
  IN {id \in DOMAIN allInv :
        /\ dom["statusFilter"] = "all" \/ StatusOf(allInv[id]) = dom["statusFilter"]
        /\ \/ dom["conditionFilter"] = "all"
           \/ normalizeCondition(allInv[id].condition) = dom["conditionFilter"]
        /\ \/ dom["batchFilter"] = "all"
           \/ normalizeBatch(allInv[id].batch) = dom["batchFilter"]
        /\ q = "" \/ HayIncludes(allInv[id], q)}

\* updateBatchUI: both batch selects get the batches of allInv as options and
\* keep their value when it is still an option, else fall back to "all"
updateBatchUI(dom) ==
  [dom EXCEPT !["batchFilter"] = IF @ \in BatchOptions THEN @ ELSE "all",
              !["statsBatchFilter"] = IF @ \in BatchOptions THEN @ ELSE "all"]

\* what renderStats shows for the selects of dom: the KPIs and the chart data
StatsOfPage(dom) ==
  LET out == renderStats(dom["statsRange"], StatsStart, dom[StatsBatchElement])
  IN [kpis |-> out, charts |-> renderCharts(Restrict(allSales, out.sales), out.alloc)]

\* rerenderAll on a page: updateBatchUI, the inventory table, renderStats
PageAfterRerenderAll(page) ==
  LET dom == updateBatchUI(page.dom)
  IN [dom |-> dom, list |-> getFilteredInventory(dom), stats |-> StatsOfPage(dom)]

\* the stores of the two pages: three items, the sales of the sold ones
FilterInvs ==
  {inv \in FewInvs : /\ inv[1].purchaseDate = <<1, 10>>
                     /\ inv[2].condition # "toString"
                     /\ inv[2].status # ""}
FilterSales(inv) ==
  [k \in {j \in 1..3 : inv[j].status = "sold"} |->
     CASE k = 1 -> ChartSale(1, <<3, 1>>, 10, "eBay", "Graz")
       [] k = 2 -> ChartSale(2, <<1, 5>>, 30, " eBay", " ")
       [] k = 3 -> ChartSale(3, <<1, 5>>, 30, "BrickLink", "")]

InitFilters ==
  /\ invForm = NoId
  /\ saleForm = [inventoryId |-> NoId, saleId |-> NoId]
  /\ tradeSelected = {}
  /\ pending = <<>>
  /\ nextInv = 4
  /\ nextSale = 4
  /\ slots = 0
  /\ opsLeft = 0
  /\ importsLeft = 0
  /\ lastOp = Quiet
  /\ allInv \in FilterInvs
  /\ allSales = FilterSales(allInv)
  /\ allExpenses = <<[date |-> <<2, 10>>, category |-> "Supplies", amount |-> Num(10)]>>
  /\ invStore = allInv
  /\ salesStore = allSales
  /\ expStore = allExpenses
  /\ \E a \in PageDoms, b \in PageDoms :
       /\ \/ \A el \in ListElements : a[el] = b[el]
          \/ \A el \in StatsElements : a[el] = b[el]
       /\ stats = [phase |-> "loaded",
                   one |-> [dom |-> a, list |-> {}, stats |-> NoOut],
                   other |-> [dom |-> b, list |-> {}, stats |-> NoOut]]

\* rerenderAll at the end of init(), on both pages
PagesRerenderAll ==
  /\ stats.phase = "loaded"
  /\ stats' = [phase |-> "rendered", one |-> PageAfterRerenderAll(stats.one),
               other |-> PageAfterRerenderAll(stats.other)]
  /\ StatsUnchanged

\* input or change of an element of the inventory list on the first page:
\* rerenderAll
ListFilterChange(el, v) ==
  /\ stats.phase = "rendered"
  /\ el \in ListElements /\ v \in ElementValues(el)
  /\ v # stats.one.dom[el]
  /\ el = "batchFilter" => v \in BatchOptions
  /\ stats' = [stats EXCEPT
                 !.one = PageAfterRerenderAll([stats.one EXCEPT !.dom[el] = v])]
  /\ StatsUnchanged

\* change of #statsRange or #statsBatchFilter on the first page: renderStats
StatsSelectChange(el, v) ==
  /\ stats.phase = "rendered"
  /\ el \in StatsElements /\ v \in ElementValues(el)
  /\ v # stats.one.dom[el]
  /\ el = "statsBatchFilter" => v \in BatchOptions
  /\ stats' = [stats EXCEPT
                 !.one.dom[el] = v,
                 !.one.stats = StatsOfPage([stats.one.dom EXCEPT ![el] = v])]
  /\ StatsUnchanged

NextFilters ==
  \/ PagesRerenderAll
  \/ \E el \in ListElements : \E v \in ElementValues(el) : ListFilterChange(el, v)
  \/ \E el \in StatsElements : \E v \in ElementValues(el) : StatsSelectChange(el, v)

SpecFilters == InitFilters /\ [][NextFilters]_vars

\* ----------------------------------------------------------- CSV import
\* A CSV text is a sequence of characters: "a" a letter, " " a blank, ","
\* a comma, "Q" a double quote, "LF" and "CR" the two line breaks.
MaxCsvLen == 5   \* characters of a CSV text

CsvChars == {"a", " ", ",", "Q", "LF", "CR"}

CsvTexts == UNION {[1..n -> CsvChars] : n \in 0..MaxCsvLen}

\* String(x).trim() !== "": a field with a character that is no white space
NotBlank(field) == \E j \in DOMAIN field : field[j] \notin {" ", "LF", "CR"}

\* the loop in which every double quote opens or closes a quoted part
RECURSIVE ParseLoopNoDoubling(_, _, _, _, _, _, _)
ParseLoopNoDoubling(text, i, field, row, rows, inQuotes, steps) ==
  IF i > Len(text)
  THEN [rows |-> Append(rows, Append(row, field)), steps |-> steps]
  ELSE LET c == text[i]
           next == IF i < Len(text) THEN text[i + 1] ELSE ""
       IN IF c = "Q"
          THEN ParseLoopNoDoubling(text, i + 1, field, row, rows, ~inQuotes, steps + 1)
          ELSE IF ~inQuotes /\ c \in {",", "LF", "CR"}
          THEN LET pushed == Append(row, field)
                   j == IF c = "CR" /\ next = "LF" THEN i + 2 ELSE i + 1
               IN IF c = ","
                  THEN ParseLoopNoDoubling(text, j, <<>>, pushed, rows, inQuotes,
                                           steps + 1)
                  ELSE ParseLoopNoDoubling(text, j, <<>>, <<>>, Append(rows, pushed),
                                           inQuotes, steps + 1)
          ELSE ParseLoopNoDoubling(text, i + 1, Append(field, c), row, rows, inQuotes,
                                   steps + 1)

\* The while loop of parseCSV from position i on, then pushField, pushRow.
\* steps counts the passes of the loop.
RECURSIVE ParseLoop(_, _, _, _, _, _, _)
ParseLoop(text, i, field, row, rows, inQuotes, steps) ==
  IF i > Len(text)
  THEN [rows |-> Append(rows, Append(row, field)), steps |-> steps]
  ELSE LET c == text[i]
           next == IF i < Len(text) THEN text[i + 1] ELSE ""
       IN IF c = "Q"
          THEN IF inQuotes /\ next = "Q"
               THEN ParseLoop(text, i + 2, Append(field, "Q"), row, rows, inQuotes,
                              steps + 1)
               ELSE ParseLoop(text, i + 1, field, row, rows, ~inQuotes, steps + 1)
          ELSE IF ~inQuotes /\ c \in {",", "LF", "CR"}
          THEN LET pushed == Append(row, field)
                   j == IF c = "CR" /\ next = "LF" THEN i + 2 ELSE i + 1
               IN IF c = ","
                  THEN ParseLoop(text, j, <<>>, pushed, rows, inQuotes, steps + 1)
                  ELSE ParseLoop(text, j, <<>>, <<>>, Append(rows, pushed), inQuotes,
                                 steps + 1)
          ELSE ParseLoop(text, i + 1, Append(field, c), row, rows, inQuotes, steps + 1)

\* rows.filter((r) => r.some((x) => String(x).trim() !== ""))
RECURSIVE FilterRows(_)
FilterRows(rows) ==
  IF rows = <<>> THEN <<>>
  ELSE (IF \E j \in DOMAIN Head(rows) : NotBlank(Head(rows)[j])
        THEN <<Head(rows)>> ELSE <<>>) \o FilterRows(Tail(rows))

\* parseCSV(text): the rows, each a sequence of fields, and the number of
\* passes of the loop
parseCSV(text) ==
  LET r == ParseLoop(text, 1, <<>>, <<>>, <<>>, FALSE, 0)
  IN [rows |-> FilterRows(r.rows), steps |-> r.steps]

\* the texts of the condition column of a CSV file
ConditionTexts ==
  {"", " ", "Sealed", "sealed, opened", "Open box", "complete", "incomplete",
   "used_incomplete", "Used Incomplete", "used_complete", "new_openbox", "mint",
   "constructor", "toString"}

MaxCsvRows == 2   \* data rows of a CSV file

\* The cells of a data row that decide what is created: name and set number,
\* purchase date, sold date, item price and shipping charged.
CsvDataRows ==
  {[name |-> n[1], setNumber |-> n[2], purchaseDate |-> pd, soldDate |-> sd,
    itemPrice |-> pr[1], shippingCharged |-> pr[2]] :
     n \in {<<"Train", "">>, <<"", "">>, <<"", "75192">>},
     pd \in {"", "2024-01-05"}, sd \in {"", "2024-02-01"},
     pr \in {<<"", "">>, <<"7", "">>, <<"", "7">>, <<"-5", "">>}}

CsvFilesOfRows == UNION {[1..n -> CsvDataRows] : n \in 1..MaxCsvRows}

\* the names rebrickableLookup finds for a set number; "" when there is no
\* API key, the request fails or the set has no name
LookupNames == {"", "Falcon"}

\* mutant: the status assignment of line 1465 is left out
csvStatusInStock(soldDate, itemPrice, shippingCharged) == "in_stock"

\* status of the item of a row: "sold" when the row carries a sale
csvStatus(soldDate, itemPrice, shippingCharged) ==
  IF soldDate # "" /\ (itemPrice > 0 \/ shippingCharged > 0) THEN "sold"
  ELSE "in_stock"

\* the name of the item of a row, after the lookup of a row without a name
csvName(row, lookup) ==
  IF Trim(row.name) = "" /\ Trim(row.setNumber) # "" /\ lookup # ""
  THEN lookup ELSE Trim(row.name)

\* The loop over the data rows from row r on: createdInv and createdSales.
\* uid() hands out the ids; here the next free numbers.
RECURSIVE CsvCreate(_, _, _, _, _)
CsvCreate(rows, r, lookup, createdInv, createdSales) ==
  IF r > Len(rows) THEN [inv |-> createdInv, sales |-> createdSales]
  ELSE LET row == rows[r]
           name == csvName(row, lookup)
           purchaseDate == Trim(row.purchaseDate)
           soldDate == Trim(row.soldDate)
           itemPrice == toNumOfText(row.itemPrice)
           shippingCharged == toNumOfText(row.shippingCharged)
           id == Len(createdInv) + 1
           inv == [id |-> id, name |-> name, purchaseDate |-> purchaseDate,
                   status |-> csvStatus(soldDate, itemPrice, shippingCharged)]
           sale == [id |-> Len(createdSales) + 1, inventoryId |-> id,
                    soldDate |-> soldDate, itemPrice |-> itemPrice,
                    shippingCharged |-> shippingCharged]
       IN IF name = "" \/ purchaseDate = ""
          THEN CsvCreate(rows, r + 1, lookup, createdInv, createdSales)
          ELSE IF soldDate # "" /\ (itemPrice > 0 \/ shippingCharged > 0)
          THEN CsvCreate(rows, r + 1, lookup, Append(createdInv, inv),
                         Append(createdSales, sale))
          ELSE CsvCreate(rows, r + 1, lookup, Append(createdInv, inv), createdSales)

InitCsv ==
  /\ invStore = EmptyStore
  /\ salesStore = EmptyStore
  /\ expStore = <<>>
  /\ allInv = EmptyStore
  /\ allSales = EmptyStore
  /\ allExpenses = <<>>
  /\ invForm = NoId
  /\ saleForm = [inventoryId |-> NoId, saleId |-> NoId]
  /\ tradeSelected = {}
  /\ pending = <<>>
  /\ nextInv = 1
  /\ nextSale = 1
  /\ slots = 0
  /\ opsLeft = 0
  /\ importsLeft = 0
  /\ lastOp = Quiet
  /\ \/ \E t \in CsvTexts : stats = [phase |-> "file", text |-> t, out |-> NoOut]
     \/ \E v \in ConditionTexts : stats = [phase |-> "cell", text |-> v, out |-> NoOut]
     \/ \E rows \in CsvFilesOfRows, name \in LookupNames :
          stats = [phase |-> "rows", text |-> rows, lookup |-> name, out |-> NoOut]

\* importCSVFile: parseCSV(text) of the file
ParseFile ==
  /\ stats.phase = "file"
  /\ stats' = [stats EXCEPT !.phase = "parsed", !.out = parseCSV(stats.text)]
  /\ StatsUnchanged

\* importCSVFile: conditionFromText of the condition cell of a row
ConditionOfCell ==
  /\ stats.phase = "cell"
  /\ stats' = [stats EXCEPT !.phase = "condition",
                            !.out = conditionFromText(stats.text)]
  /\ StatsUnchanged

\* importCSVFile on the data rows of a file: the records are created, put
\* into the inventory store and the sales store, and reloadAll reads them
ImportRows ==
  /\ stats.phase = "rows"
  /\ LET c == CsvCreate(stats.text, 1, stats.lookup, <<>>, <<>>)
         inv == [k \in 1..Len(c.inv) |-> c.inv[k]]
         sales == [k \in 1..Len(c.sales) |-> c.sales[k]]
     IN /\ invStore' = inv
        /\ salesStore' = sales
        /\ allInv' = inv
        /\ allSales' = sales
        /\ stats' = [stats EXCEPT !.phase = "imported",
                                  !.out = <<Len(c.inv), Len(c.sales)>>]
  /\ UNCHANGED <<invForm, saleForm, tradeSelected, pending, nextInv, nextSale,
                 slots, opsLeft, importsLeft, lastOp, expStore, allExpenses>>

NextCsv == ParseFile \/ ConditionOfCell \/ ImportRows

SpecCsv == InitCsv /\ [][NextCsv]_vars

\* ------------------------------------------------------------------ claims
SaleOk(k) ==
  /\ salesStore[k].inventoryId \in DOMAIN invStore
  /\ StatusOf(invStore[salesStore[k].inventoryId]) = "sold"

\* C1: once every operation the user started has completed (Spec: one
\* operation at a time), every SaleRecord in the sales store references an
\* item that is in the inventory store with status "sold".
C1_SalesReferenceSoldItems ==
  pending = <<>> => \A k \in DOMAIN salesStore : SaleOk(k)

\* C2: no two SaleRecords of the sales store have the same inventoryId, in
\* every reachable state; a second submit of the sell form for an item that
\* has a sale does not add one.
C2_OneSalePerItem ==
  \A a \in DOMAIN salesStore : \A b \in DOMAIN salesStore :
    a # b => salesStore[a].inventoryId # salesStore[b].inventoryId

\* C2 witness: the sell form was submitted for an item that has a sale,
\* with a fresh sale id, and the put was rejected
C2_Witness ==
  /\ lastOp.kind = "rejected" /\ lastOp.op = "saleSave"
  /\ SaleByInventoryId(lastOp.id) # NoId

\* C3: handleSaleSave creates a new SaleRecord only for an item whose status
\* is "in_stock" at that time (here: with no import file read, so that every
\* status comes from the handlers).
C3_NewSaleOnlyForInStock ==
  (lastOp.kind = "putSale" /\ lastOp.new /\ importsLeft = MaxImports)
    => lastOp.status = "in_stock"

C5_DeleteCascades ==
  (lastOp.kind = "done" /\ lastOp.op = "del" /\ lastOp.hadSale)
    => SaleByInventoryId(lastOp.id) = NoId

\* ---- claims about the stats computation
StoresRendered == stats.variant = "stores" /\ stats.phase = "rendered"
FlipsRendered == stats.variant = "flips" /\ stats.phase = "rendered"

\* the sales renderStats kept in scope
ScopeSales == Restrict(allSales, stats.out.sales)

\* the revenue the profit calculation reports for a sale
ReportedRevenue(s) == toNum(s.itemPrice) + toNum(s.shippingCharged)
ScopeRevenue == ISum([k \in DOMAIN ScopeSales |-> ReportedRevenue(ScopeSales[k])])

AllocatedCost(r) == RAdd(RAdd(r.allocMaterial, r.allocShipping), r.allocOther)

\* C6: every per-sale result of renderStats has netProfit = revenue -
\* directCost - allocatedCost, with revenue = itemPrice + shippingCharged,
\* directCost = purchaseCost + materialCost + shippingPaid + platformFees and
\* allocatedCost the sum of the three allocated amounts; every calcNet result
\* of the single-store variant has profitNet = revenue - directCost -
\* alloc.total, with alloc.total the sum of its three buckets.
C6_NetProfitIdentity ==
  /\ StoresRendered =>
       \A k \in stats.out.sales :
         LET s == allSales[k]
             inv == allInv[s.inventoryId]
             r == stats.out.net[k]
             directCost == toNum(inv.purchaseCost) + toNum(inv.materialCost)
                           + toNum(s.shippingPaid) + toNum(s.platformFees)
         IN /\ r.revenue = ReportedRevenue(s)
            /\ r.directCosts = directCost
            /\ r.netProfit = RSub(RSub(Rat(r.revenue), Rat(directCost)),
                                  AllocatedCost(r))
  /\ FlipsRendered =>
       \A k \in DOMAIN stats.allFlips :
         LET f == stats.allFlips[k]
             r == stats.out.net[k]
             directCost == toNum(f.purchaseCost) + toNum(f.materialCost)
                           + toNum(f.fees)
         IN /\ r.base.revenue = toNum(f.soldPrice)
            /\ r.base.directCost = directCost
            /\ r.alloc.total = RAdd(RAdd(r.alloc.material, r.alloc.shipping),
                                    r.alloc.other)
            /\ r.profitNet = RSub(RSub(Rat(r.base.revenue), Rat(directCost)),
                                  r.alloc.total)

\* C7: in renderStats, when the total revenue of the sales in scope is > 0,
\* the weights of the sales in scope sum to 1 and, for each bucket, the
\* amounts allocated to the sales in scope sum to the bucket's total.
C7_WeightsSumToOne ==
  (StoresRendered /\ ScopeRevenue > 0) =>
    /\ RSum([k \in stats.out.sales |-> Weight(allSales[k], stats.out.alloc)]) = One
    /\ RSum([k \in stats.out.sales |-> stats.out.net[k].allocMaterial])
         = Rat(stats.out.alloc.totals.material)
    /\ RSum([k \in stats.out.sales |-> stats.out.net[k].allocShipping])
         = Rat(stats.out.alloc.totals.shipping)
    /\ RSum([k \in stats.out.sales |-> stats.out.net[k].allocOther])
         = Rat(stats.out.alloc.totals.other)

\* C8: in renderStats, when the scope holds count >= 1 sales whose total
\* revenue is zero, every sale in scope has the weight 1/count; when the
\* scope is empty nothing is allocated.
C8_EqualSplitOnZeroRevenue ==
  StoresRendered =>
    /\ (stats.out.sales # {} /\ ScopeRevenue = 0) =>
         \A k \in stats.out.sales :
           Weight(allSales[k], stats.out.alloc)
             = RDiv(One, Rat(Cardinality(stats.out.sales)))
    /\ stats.out.sales = {} => stats.out.kpiOther = Zero

\* the expenses dated in a month without a sale of the scope
NoSaleMonthExpenses ==
  {j \in DOMAIN allExpenses :
     /\ toNum(allExpenses[j].amount) # 0
     /\ ym(allExpenses[j].date) \notin SaleMonths(ScopeSales)}

\* C9 as stated: an expense dated in a month without a sale of the scope
\* changes no per-sale result of renderStats: the results are those of the
\* expenses dated in the months of the sales in scope.
C9_NoSaleMonthExpenseNotAllocated ==
  StoresRendered =>
    \A k \in stats.out.sales :
      stats.out.net[k] =
        computeSaleNet(allInv[allSales[k].inventoryId], allSales[k],
                       sumExpensesOfSaleMonths(allExpenses, ScopeSales))

\* C9 amended: renderStats does not consult the dates of the expenses: when
\* the item revenue of the scope is > 0, the allocated costs of the sales in
\* scope add up to the amounts of all the expenses, those dated in a month
\* without a sale of the scope included.
C9_ExpenseDatesNotConsulted ==
  (StoresRendered /\ stats.out.kpiRevenue > 0) =>
    RSum([k \in stats.out.sales |-> AllocatedCost(stats.out.net[k])])
      = Rat(ISum([j \in DOMAIN allExpenses |->
                    toNum(allExpenses[j].amount)]))

C9_Witness ==
  /\ StoresRendered
  /\ stats.out.kpiRevenue > 0
  /\ NoSaleMonthExpenses # {}
  /\ \E k \in stats.out.sales : AllocatedCost(stats.out.net[k]) # Zero

\* C10: the weight of a sale in scope is its revenue, item price plus
\* shipping charged, divided by the total of that revenue over the scope.
C10_WeightIsRevenueShare ==
  (StoresRendered /\ ScopeRevenue > 0) =>
    \A k \in stats.out.sales :
      Weight(allSales[k], stats.out.alloc)
        = RDiv(Rat(ReportedRevenue(allSales[k])), Rat(ScopeRevenue))

\* the bucket the categories of an expense belong to
CategoryBucket(cat) ==
  IF cat = "Shipping" THEN "shipping"
  ELSE IF cat \in {"Supplies", "Parts"} THEN "material"
  ELSE "other"

\* the amounts of the expenses of the set js whose category belongs to b
AmountsOf(js, b) ==
  ISum([j \in {i \in js : CategoryBucket(allExpenses[i].category) = b}
          |-> toNum(allExpenses[j].amount)])

\* C11: every counted expense amount lands in exactly one bucket, Shipping
\* in shipping, Supplies and Parts in material, every other category in
\* other, and the three buckets add up to the counted amounts: for the
\* totals of sumExpensesByType and for every month of expenseBucketsByMonth.
C11_BucketsPartitionExpenses ==
  /\ StoresRendered =>
       LET counted == {j \in DOMAIN allExpenses : toNum(allExpenses[j].amount) # 0}
           t == stats.out.alloc.totals
       IN /\ t.material = AmountsOf(counted, "material")
          /\ t.shipping = AmountsOf(counted, "shipping")
          /\ t.other = AmountsOf(counted, "other")
          /\ t.material + t.shipping + t.other
               = ISum([j \in counted |-> toNum(allExpenses[j].amount)])
  /\ FlipsRendered =>
       \A key \in DOMAIN stats.out.expByMonth :
         LET counted == {j \in DOMAIN allExpenses :
                           /\ toNum(allExpenses[j].amount) > 0
                           /\ ym(allExpenses[j].date) = key}
             t == stats.out.expByMonth[key]
         IN /\ t.material = AmountsOf(counted, "material")
            /\ t.shipping = AmountsOf(counted, "shipping")
            /\ t.other = AmountsOf(counted, "other")
            /\ t.material + t.shipping + t.other
                 = ISum([j \in counted |-> toNum(allExpenses[j].amount)])

\* C12: in renderStats the shipping charged to the buyer counts as revenue
\* everywhere: the revenue of every sale in scope is itemPrice +
\* shippingCharged, and the total revenue KPI written to the page is the sum
\* of these per-sale revenues.
C12_RevenueIncludesShipping ==
  StoresRendered =>
    /\ \A k \in stats.out.sales :
         stats.out.net[k].revenue = ReportedRevenue(allSales[k])
    /\ stats.out.kpiRevenue
         = ISum([k \in stats.out.sales |-> stats.out.net[k].revenue])

\* a percentage: a finite number from 0 to 100
IsPercentage(r) == r[2] > 0 /\ ~RLess(r, Zero) /\ ~RLess(Rat(100), r)

ChartsDrawn == StoresRendered /\ stats.charts # NoCharts

\* the items that count for the sell-through of a condition
ItemsOfCondition(c) ==
  {id \in DOMAIN allInv : /\ StatusOf(allInv[id]) # "exchanged"
                          /\ normalizeCondition(allInv[id].condition) = c}

\* C13: the sell-through KPI of renderStats and each of the four
\* per-condition sell-through values of renderCharts is a finite number in
\* [0, 100], and is 0 when the count it divides by is 0.
C13_SellThroughInRange ==
  /\ StoresRendered =>
       /\ IsPercentage(stats.out.kpiSellThrough)
       /\ getStatsBatchScopedInventory(stats.batch) = {}
            => stats.out.kpiSellThrough = Zero
  /\ ChartsDrawn =>
       /\ DOMAIN stats.charts.sellThroughVals = 1..4
       /\ \A i \in 1..4 :
            /\ IsPercentage(stats.charts.sellThroughVals[i])
            /\ ItemsOfCondition(condOrder[i]) = {}
                 => stats.charts.sellThroughVals[i] = Zero

\* the KPI of an empty scope is 0, next to charts with a condition that
\* sold none of its items in the scope and a condition without items
C13_Witness ==
  /\ ChartsDrawn
  /\ stats.batch = "A"
  /\ getStatsBatchScopedInventory(stats.batch) = {}
  /\ stats.out.kpiSellThrough = Zero
  /\ ItemsOfCondition("new_sealed") # {}
  /\ stats.charts.sellThroughVals[1] = Zero
  /\ ItemsOfCondition("used_complete") = {}
  /\ stats.charts.sellThroughVals[3] = Zero

\* a date string that new Date() can read
IsDate(d) == d \notin {NoDate, BadDate}

\* the purchase date of the item of a sale
PurchaseDateOf(k) == allInv[allSales[k].inventoryId].purchaseDate

\* the sales in scope with a purchase date and a sold date
DatedSales ==
  {k \in stats.out.sales : IsDate(PurchaseDateOf(k)) /\ IsDate(allSales[k].soldDate)}

\* the days from purchase to sale, 0 for a sale before the purchase
DaysToSell(k) ==
  LET days == DayNumber(allSales[k].soldDate) - DayNumber(PurchaseDateOf(k))
  IN IF days > 0 THEN days ELSE 0

\* C14: daysBetween gives null when a date is missing or cannot be read and
\* else a whole number of days that is not negative, 0 for a sale before the
\* purchase; the average days-to-sell of renderStats is the rounded mean over
\* the sales with both dates, is never negative, and is 0 when there is none.
C14_AvgDaysNonNegative ==
  StoresRendered =>
    /\ \A k \in stats.out.sales :
         LET d == daysBetween(PurchaseDateOf(k), allSales[k].soldDate)
         IN IF k \in DatedSales THEN d = Num(DaysToSell(k)) /\ d[1] \in Nat
            ELSE d = Missing
    /\ stats.out.kpiAvgDays \in Nat
    /\ DatedSales = {} => stats.out.kpiAvgDays = 0
    /\ LET total == ISum([k \in DatedSales |-> DaysToSell(k)])
           count == Cardinality(DatedSales)
           avg == stats.out.kpiAvgDays
       IN /\ 2 * count * avg <= 2 * total + count
          /\ count > 0 => 2 * total + count < 2 * count * (avg + 1)

\* a sale before its purchase counts 0 days, a sale two days after its
\* purchase counts 2, a sale of an item without purchase date does not count
C14_Witness ==
  /\ StoresRendered
  /\ stats.out.sales = {1, 2, 3}
  /\ DatedSales = {1, 3}
  /\ DayNumber(allSales[1].soldDate) < DayNumber(PurchaseDateOf(1))
  /\ DaysToSell(3) = 2
  /\ stats.out.kpiAvgDays = 1

ListRendered == stats.variant = "list" /\ stats.phase = "rendered"

\* A breakdown of the net profit by label. label[k] and profit[k] are the
\* label and the net profit of row k, rows in the order of the data. top
\* has at most 10 entries, each a label with the sum of the profits of its
\* rows, in non-increasing order of profit, labels of equal profit in the
\* order of their first rows, and no label left out has a larger profit
\* than a label in it; all labels are in it when there are at most 10.
IsTopBreakdown(top, label, profit) ==
  LET labels == {label[k] : k \in DOMAIN label}
      sum(l) == RSum([k \in {j \in DOMAIN label : label[j] = l} |-> profit[k]])
      first(l) == Min({k \in DOMAIN label : label[k] = l})
      shown == {top[i].key : i \in DOMAIN top}
  IN /\ Len(top) <= 10
     /\ Len(top) = 10 \/ shown = labels
     /\ \A i \in DOMAIN top : top[i].key \in labels /\ top[i].val = sum(top[i].key)
     /\ \A i, j \in DOMAIN top :
          i < j => /\ top[i].key # top[j].key
                   /\ ~RLess(top[i].val, top[j].val)
                   /\ top[i].val = top[j].val => first(top[i].key) < first(top[j].key)
     /\ \A l \in labels \ shown : \A i \in DOMAIN top : ~RLess(top[i].val, sum(l))

\* a label, 'Unknown' for a blank one
OrUnknown(v) == IF Trim(v) = "" THEN "Unknown" ELSE Trim(v)

\* C15: the breakdowns of the net profit by marketplace, by city and by
\* batch have at most 10 entries, sorted by net profit, non-increasing,
\* equal profits in the order of first insertion, no label left out larger
\* than one shown; blank labels are grouped under 'Unknown' and 'No Batch'.
C15_TopBreakdowns ==
  /\ ChartsDrawn =>
       LET rows == stats.out.sales
           profit == [k \in rows |-> stats.out.net[k].netProfit]
           batchOf(k) == Trim(allInv[allSales[k].inventoryId].batch)
       IN /\ IsTopBreakdown(stats.charts.marketTop,
                            [k \in rows |-> OrUnknown(allSales[k].soldOn)], profit)
          /\ IsTopBreakdown(stats.charts.cityTop,
                            [k \in rows |-> OrUnknown(allSales[k].city)], profit)
          /\ IsTopBreakdown(stats.charts.batchTop,
                            [k \in rows |-> IF batchOf(k) = "" THEN "No Batch"
                                            ELSE batchOf(k)], profit)
  /\ ListRendered =>
       LET list == stats.allFlips
           rows == {k \in DOMAIN list :
                      list[k].soldDate # NoDate /\ toNum(list[k].soldPrice) > 0}
       IN IsTopBreakdown(stats.charts.marketTop,
                         [k \in rows |-> OrUnknown(list[k].soldOn)],
                         [k \in rows |->
                            Rat(toNum(list[k].soldPrice)
                                - (toNum(list[k].purchaseCost)
                                   + toNum(list[k].materialCost)
                                   + toNum(list[k].fees)))])

\* eleven marketplaces: the last one sold has the largest profit and comes
\* first, the others follow in the order of their first sales and the
\* tenth is left out; sales without city are shown as 'Unknown'
C15_Witness ==
  /\ ChartsDrawn
  /\ Cardinality(stats.out.sales) = 11
  /\ Len(stats.charts.marketTop) = 10
  /\ stats.charts.marketTop[1].key = allSales[11].soldOn
  /\ stats.charts.marketTop[2].key = allSales[1].soldOn
  /\ stats.charts.marketTop[2].val = stats.charts.marketTop[10].val
  /\ stats.charts.marketTop[10].key = allSales[9].soldOn
  /\ \E i \in DOMAIN stats.charts.cityTop : stats.charts.cityTop[i].key = "Unknown"

\* the sales in scope whose sold date has the form YYYY-MM-DD
MonthSales == {k \in stats.out.sales : allSales[k].soldDate \notin {NoDate, BadDate}}

\* the sales in scope sold in month m
SalesOfMonth(m) == {k \in MonthSales : allSales[k].soldDate[1] = m}

\* C16: the monthly series of renderCharts lists, strictly ascending, exactly
\* the months in which a sale in scope has a sold date of the form
\* YYYY-MM-DD, each with the sums of the revenue and of the net profit of the
\* sales of that month; a sale without such a date adds to no month.
C16_MonthlySeries ==
  ChartsDrawn =>
    LET months == stats.charts.months
    IN /\ \A i, j \in DOMAIN months : i < j => months[i][1] < months[j][1]
       /\ {months[i][1] : i \in DOMAIN months}
            = {allSales[k].soldDate[1] : k \in MonthSales}
       /\ DOMAIN stats.charts.profitVals = DOMAIN months
       /\ DOMAIN stats.charts.revVals = DOMAIN months
       /\ \A i \in DOMAIN months :
            /\ stats.charts.profitVals[i]
                 = RSum([k \in SalesOfMonth(months[i][1]) |-> stats.out.net[k].netProfit])
            /\ stats.charts.revVals[i]
                 = Rat(ISum([k \in SalesOfMonth(months[i][1])
                               |-> ReportedRevenue(allSales[k])]))

\* the first sale of the data was made in month 3, the last in month 1 and
\* one has no sold date: the series is month 1, month 3
C16_Witness ==
  /\ ChartsDrawn
  /\ stats.out.sales = {1, 2, 3}
  /\ allSales[1].soldDate[1] = 3
  /\ allSales[2].soldDate = NoDate
  /\ allSales[3].soldDate[1] = 1
  /\ stats.charts.months = <<<<1>>, <<3>>>>

ConditionKeys == {"new_sealed", "new_openbox", "used_complete", "used_incomplete"}

\* C18: normalizeCondition returns one of the four condition keys for every
\* input, so after reloadAll every item in memory has a condition among the
\* four keys.
C18_ConditionIsOneOfFour ==
  \A id \in DOMAIN allInv : allInv[id].condition \in ConditionKeys

\* C19: after any sequence of operations every expense record in the
\* expenses store has an amount above 0.
C19_ExpenseAmountPositive ==
  \A i \in DOMAIN expStore :
    expStore[i].amount # Missing /\ expStore[i].amount[1] > 0

\* C20: after any sequence of operations every item in the inventory store
\* has a purchase cost of 0 or more.
C20_PurchaseCostNotNegative ==
  \A id \in DOMAIN invStore :
    invStore[id].purchaseCost # Missing /\ invStore[id].purchaseCost[1] >= 0
\* ------------------------------------------------------------------ C30
\* the number of double quotes before position i
QuotesBefore(t, i) == Cardinality({j \in 1..(i - 1) : t[j] = "Q"})

\* the first and the last position of the run of double quotes around i
RunStart(t, i) ==
  CHOOSE a \in 1..i : /\ \A j \in a..i : t[j] = "Q"
                      /\ (a = 1 \/ t[a - 1] # "Q")

RunEnd(t, i) ==
  CHOOSE b \in i..Len(t) : /\ \A j \in i..b : t[j] = "Q"
                           /\ (b = Len(t) \/ t[b + 1] # "Q")

\* What the character at position i is to the splitting: "char" field
\* content, "sep" the end of a field, "break" the end of a row, "skip"
\* neither.  A character is inside quotes when an odd number of quotes
\* precedes it; in a run of quotes the pairs that lie inside quotes yield
\* one quote character each.
CsvMark(t, i) ==
  IF t[i] = "Q"
  THEN LET a == RunStart(t, i)
           k == RunEnd(t, i) - a + 1
           o == i - a + 1
           inside == QuotesBefore(t, a) % 2 = 1
       IN IF o < k /\ (o % 2 = 1) = inside THEN "char" ELSE "skip"
  ELSE IF QuotesBefore(t, i) % 2 = 1 THEN "char"
  ELSE IF t[i] = "," THEN "sep"
  ELSE IF t[i] = "CR" THEN "break"
  ELSE IF t[i] = "LF" THEN (IF i > 1 /\ t[i - 1] = "CR" THEN "skip" ELSE "break")
  ELSE "char"

\* the rows of fields that the marks of the text describe, blank rows dropped
RECURSIVE MarkedRows(_, _, _, _)
MarkedRows(t, i, field, row) ==
  LET full == Append(row, field)
      keep == IF \A j \in DOMAIN full : full[j] \in Seq({" ", "LF", "CR"})
              THEN <<>> ELSE <<full>>
  IN IF i > Len(t) THEN keep
     ELSE CASE CsvMark(t, i) = "char" -> MarkedRows(t, i + 1, Append(field, t[i]), row)
            [] CsvMark(t, i) = "sep" -> MarkedRows(t, i + 1, <<>>, full)
            [] CsvMark(t, i) = "break" -> keep \o MarkedRows(t, i + 1, <<>>, <<>>)
            [] OTHER -> MarkedRows(t, i + 1, field, row)

\* C30: parseCSV ends after at most one pass of its loop per character, and
\* its rows are those of a quote-aware split: outside quotes a comma ends a
\* field and LF, CR and CRLF end one row each, inside quotes commas and line
\* breaks are content and a doubled quote is one quote character, and rows
\* of blank fields are dropped.
C30_ParseCsvQuoteAware ==
  stats.phase = "parsed" =>
    /\ stats.out.steps <= Len(stats.text)
    /\ stats.out.rows = MarkedRows(stats.text, 1, <<>>, <<>>)

\* a quoted field with a doubled quote and a comma, closed at the end
C30_Witness ==
  /\ stats.phase = "parsed"
  /\ stats.text = <<"Q", "Q", "Q", ",", "Q">>
  /\ stats.out.rows = << << <<"Q", ",">> >> >>

\* ------------------------------------------------------------------ C26
\* the condition the text of a CSV cell stands for: the first of "sealed",
\* "open", "incomplete" and "complete" that the text contains
ConditionOfText(v) ==
  LET s == LowerTrim(v)
  IN CASE s = "" -> "used_incomplete"
       [] s # "" /\ Includes(s, "sealed") -> "new_sealed"
       [] s # "" /\ ~Includes(s, "sealed") /\ Includes(s, "open") -> "new_openbox"
       [] s # "" /\ ~Includes(s, "sealed") /\ ~Includes(s, "open")
            /\ Includes(s, "incomplete") -> "used_incomplete"
       [] s # "" /\ ~Includes(s, "sealed") /\ ~Includes(s, "open")
            /\ ~Includes(s, "incomplete") /\ Includes(s, "complete") -> "used_complete"
       [] OTHER -> "used_incomplete"

\* C26: conditionFromText gives used_incomplete for a blank text, new_sealed
\* for a text with "sealed", else new_openbox for one with "open", else
\* used_incomplete for one with "incomplete", else used_complete for one with
\* "complete", and used_incomplete for any other text.
C26_ConditionFromText ==
  stats.phase = "condition" => stats.out = ConditionOfText(stats.text)

\* ------------------------------------------------------------------ C27
\* a data row carries a sale: a sold date and a positive price or shipping
RowHasSale(row) ==
  /\ row.soldDate # ""
  /\ (toNumOfText(row.itemPrice) > 0 \/ toNumOfText(row.shippingCharged) > 0)

\* the data rows, in file order, that satisfy Kept
RowsKept(rows, Kept(_)) == SetToSeq({r \in DOMAIN rows : Kept(rows[r])})

\* The import created one item per kept row and nothing else, a sale exactly
\* for the rows that carry one, with status sold for these and in_stock for
\* the others, and every sale references a sold item of the import.
ImportMatchesRows(Kept(_)) ==
  LET rows == stats.text
      kept == RowsKept(rows, Kept)
  IN /\ DOMAIN invStore = 1..Len(kept)
     /\ \A k \in DOMAIN invStore :
          LET row == rows[kept[k]]
              mine == {sid \in DOMAIN salesStore : salesStore[sid].inventoryId = k}
          IN /\ Cardinality(mine) = (IF RowHasSale(row) THEN 1 ELSE 0)
             /\ invStore[k].status = (IF RowHasSale(row) THEN "sold" ELSE "in_stock")
     /\ \A sid \in DOMAIN salesStore :
          /\ salesStore[sid].inventoryId \in DOMAIN invStore
          /\ invStore[salesStore[sid].inventoryId].status = "sold"

RowHasNameAndDate(row) == row.name # "" /\ row.purchaseDate # ""

\* C27 as stated: a data row without a name or without a purchase date
\* creates nothing; every other row creates one item, and a sale for it
\* exactly when it has a sold date and a positive price or shipping, the item
\* then being sold and otherwise in stock.
C27_RowsWithNameAndDate ==
  stats.phase = "imported" => ImportMatchesRows(RowHasNameAndDate)

\* the row has a purchase date and a name, its own or the one the lookup of
\* its set number found
RowNamedAfterLookup(row) ==
  /\ row.purchaseDate # ""
  /\ (row.name # "" \/ (row.setNumber # "" /\ stats.lookup # ""))

\* C27 amended: the rows that create nothing are those without a purchase
\* date and those that have no name even after the lookup of their set
\* number; every other row creates one item and, when it carries a sale, one
\* sale, with status sold, else in_stock.
C27_RowsNamedAfterLookup ==
  stats.phase = "imported" => ImportMatchesRows(RowNamedAfterLookup)

\* a file of a sold row and an unsold row that got its name from the lookup
C27_Witness ==
  /\ stats.phase = "imported"
  /\ Len(stats.text) = 2
  /\ RowHasSale(stats.text[1]) /\ stats.text[1].name = "Train"
  /\ stats.text[2].name = "" /\ ~RowHasSale(stats.text[2])
  /\ DOMAIN invStore = {1, 2} /\ DOMAIN salesStore = {1}
  /\ invStore[1].status = "sold" /\ invStore[2].status = "in_stock"
  /\ invStore[2].name = "Falcon"

\* ------------------------------------------------------------------ C25
\* the status of an item in a store or snapshot, "absent" when it is not there
StatusIn(store, id) == IF id \in DOMAIN store THEN StatusOf(store[id]) ELSE "absent"

\* C25: a step in which handleSaleSave ends at a validation return or at a
\* failed write of the sale adds no sale and leaves the status of the item
\* as it was, in the inventory store and in allInv.
C25_RejectedSaleChangesNothing ==
  [][(lastOp'.op = "saleSave" /\ lastOp'.kind \in {"invalid", "rejected"})
       => /\ salesStore' = salesStore
          /\ StatusIn(invStore', lastOp'.id) = StatusIn(invStore, lastOp'.id)
          /\ StatusIn(allInv', lastOp'.id) = StatusIn(allInv, lastOp'.id)]_vars

\* the write of a sale for an item in stock was refused by the sales store
C25_Witness ==
  /\ lastOp.kind = "rejected" /\ lastOp.op = "saleSave"
  /\ StatusIn(invStore, lastOp.id) = "in_stock"
  /\ StatusIn(allInv, lastOp.id) = "in_stock"

\* ------------------------------------------------------------------ C24
\* C24: the write of handleInvSave for an item that is in the inventory store
\* leaves the stored status of the item as it was, also while a sale save or
\* a trade for the item is pending.
C24_EditKeepsStatus ==
  [][\A i \in Slots :
       (InvSavePut(i) /\ pending[i].id \in DOMAIN invStore)
         => StatusIn(invStore', pending[i].id) = StatusIn(invStore, pending[i].id)]_vars

ItemCost == [id \in ItemIds |-> 1]

\* tradeSelectedCost: the costs of the selected ids that allInv.find finds,
\* whatever their status
tradeSelectedCost ==
  ISum([id \in {k \in tradeSelected : k \in DOMAIN allInv} |-> ItemCost[id]])

\* C28: with no handler pending, Selected Cost is the total cost of the items
\* a submitted trade would mark exchanged: the selected items that are in
\* allInv with status in_stock.
C28_SelectedCostIsTradeCost ==
  pending = <<>> =>
    tradeSelectedCost = ISum([id \in SelectedInvs |-> ItemCost[id]])

\* ------------------------------------------------------------------ C23
\* purchaseCost + materialCost over the items of inv that are not exchanged
CostNotExchanged(inv) ==
  ISum([id \in {k \in DOMAIN inv : StatusOf(inv[k]) # "exchanged"} |->
          toNum(inv[id].purchaseCost) + toNum(inv[id].materialCost)])

C21_FiltersIndependent ==
  stats.phase = "rendered" =>
    /\ (\A el \in StatsElements : stats.one.dom[el] = stats.other.dom[el])
         => stats.one.stats = stats.other.stats
    /\ (\A el \in ListElements : stats.one.dom[el] = stats.other.dom[el])
         => stats.one.list = stats.other.list

\* two pages with the same stats settings, a batch chosen for the stats, and
\* different inventory lists: the KPIs count a sale and are the same
C21_Witness ==
  /\ stats.phase = "rendered"
  /\ \A el \in StatsElements : stats.one.dom[el] = stats.other.dom[el]
  /\ stats.one.dom["statsBatchFilter"] = "A"
  /\ stats.one.dom["batchFilter"] # stats.other.dom["batchFilter"]
  /\ stats.one.list # stats.other.list
  /\ stats.one.stats.kpis.sales # {}
  /\ stats.one.stats = stats.other.stats

====
